---------------------------- MODULE Spec2Model ----------------------------
(***************************************************************************)
(* InfraMon backend: the metrics collector (MetricsCollector, the          *)
(* collect_and_store_* operations of StatsService) and the history query   *)
(* and aggregation of StatsService, as state machines.                     *)
(*                                                                         *)
(* Spec      the collector: start(), stop(), the collection loop task(s),  *)
(*           the sample store as concurrent readers see it.                *)
(* FairSpec  Spec with the event loop's progress (weak fairness).          *)
(* HistSpec  get_system_stats_history / get_container_stats_history and    *)
(*           the two _aggregate_* functions on bounded tables of samples   *)
(*           (the collector idle).                                         *)
(* DenseSpec, AnalyticsSpec, SnapshotSpec                                  *)
(*           aggregation over dense tables, trends / top consumers /       *)
(*           compare, and the parsing of a Docker stats snapshot.          *)
(* RouteSpec the statistics routes of the API with their validation, the   *)
(*           collector committing samples between the requests.            *)
(* PruneSpec prune_old_stats statement by statement, with concurrent       *)
(*           callers.                                                      *)
(* RateSpec  RateLimitMiddleware.dispatch.                                 *)
(* AuthSpec  the token blacklist, get_current_user, logout and             *)
(*           get_token_from_refresh with concurrent callers.               *)
(*                                                                         *)
(* Time is in seconds.  An asyncio task runs without interruption between  *)
(* two awaits, so every action of a task is the code between two awaits.   *)
(***************************************************************************)
EXTENDS Integers, Sequences, FiniteSets, Bags, TLC

\* ------------------------------------------------------------- bounds
MaxTasks == 2
MaxTicks == 2
MaxContainers == 2
MaxTime == 60

\* MetricsCollector.interval, seconds.
interval == 60

TaskIds == 1..MaxTasks
TickIds == 1..MaxTicks
RuntimeIds == 1..MaxContainers

VARIABLES
    running,      \* MetricsCollector._running
    task,         \* MetricsCollector._task: 0 is None, else the task's id
    tasks,        \* the asyncio tasks running _collection_loop
    numTasks,     \* tasks created so far
    stopPc,       \* where the caller of stop() is: "idle" or "await"
    stopTask,     \* the task stop() awaits
    now,          \* the clock, seconds
    containers,   \* table containers: the persisted Container rows
    systemStats,  \* table system_stats: the committed rows, a bag (the
                  \* primary key is not modelled: two INSERTs of the same
                  \* column values are two rows)
    containerStats, \* table container_stats: the committed rows, a bag
    numTicks,     \* ticks begun so far
    hNow,         \* history: datetime.utcnow() of the query, seconds
    hTz,          \* history: the UTC offset of the server's local time
    hTable,       \* history: the table the samples are in
    hStore,       \* history: the rows of that table
    hResult,      \* history: the request being answered and its result
    parsed,       \* snapshot: what container.stats() returned (stats_data)
                  \* and what was made of it
    wNow,         \* web: the clock of the server process, seconds
    RATE_LIMIT_STORE, \* security.RATE_LIMIT_STORE: client ip -> times recorded
    dispatched,   \* rate limit: the requests answered so far, in order
    TOKEN_BLACKLIST,  \* auth.TOKEN_BLACKLIST
    issued,       \* auth: the tokens created so far
    authCalls,    \* auth: the calls in progress and their answers
    exchanged     \* auth: the refresh tokens exchanged so far, in order

collVars == <<running, task, tasks, numTasks, stopPc, stopTask, now,
              containers, systemStats, containerStats, numTicks>>

histVars == <<hNow, hTz, hTable, hStore, hResult>>

dockerVars == <<parsed>>

rateVars == <<RATE_LIMIT_STORE, dispatched>>

authVars == <<TOKEN_BLACKLIST, issued, authCalls, exchanged>>

webVars == <<wNow, rateVars, authVars>>

vars == <<collVars, histVars, dockerVars, webVars>>

\* ------------------------------------------------------------- data
\* The persisted id (Container.id) of the row of runtime container c.
DbId(c) == c + 10

ContainerRow(c) == [id |-> DbId(c), container_id |-> c]

\* The runtime containers that have a Container row; the last one has none.
Mapped == RuntimeIds \ {MaxContainers}

\* A task: where it is (pc), whether cancel() was called on it, the end of its
\* sleep, and its current tick (while it sleeps: its last tick): its number,
\* how it went ("none": no tick yet, "running", "committed", "host_failed",
\* "list_failed", "sample_failed", "commit_failed", "cancelled"), whether it
\* asked the runtime for the running containers, the containers enumerated,
\* those still to sample, those whose sampling returned an error, and the
\* rows added to the session and not committed.
NoTask == [pc |-> "none", cancel |-> FALSE, tick |-> 0, wake |-> 0,
           outcome |-> "none", listed |-> FALSE,
           enum |-> {}, todo |-> <<>>, failed |-> {}, staged |-> {}]

\* The positions of a task inside the body of a tick.
CollectingPcs == {"host_commit", "list", "ctr", "ctr_commit", "final_commit"}

Collecting(t) == tasks[t].pc \in CollectingPcs

\* Every sequence without repetition over S: what the runtime may enumerate.
RECURSIVE Enumerations(_)
Enumerations(S) ==
    {<<>>} \cup UNION {{<<c>> \o e : e \in Enumerations(S \ {c})} : c \in S}

Range(s) == {s[i] : i \in 1..Len(s)}

\* A clock that a host sampling does not advance: it reads the same until
\* time passes.
utcnow_coarse(blocks) == now

\* datetime.utcnow() as far as it orders two readings: the seconds the event
\* loop has been blocked by psutil.cpu_percent(interval=1), one in every host
\* sampling (`blocks` of them when the clock is read).  The time that passes
\* besides (now) only adds to a later reading.
utcnow(blocks) == blocks

\* The objects of a kind among those a session holds.
SystemRows(rows) == {x \in rows : x.kind = "system"}

ContainerRows(rows) == {x \in rows : x.kind = "container"}

\* A commit that INSERTs every staged object twice.
Inserted_twice(table, rows) ==
    table (+) SetToBag(
        {[tick |-> r.tick, timestamp |-> r.timestamp] : r \in SystemRows(rows)})
          (+) SetToBag(
        {[tick |-> r.tick, timestamp |-> r.timestamp] : r \in SystemRows(rows)})

\* The table after the INSERTs of a commit: one row for every object the
\* session staged, with its columns.
Inserted(table, rows) ==
    table (+) SetToBag(
        {[tick |-> r.tick, timestamp |-> r.timestamp] : r \in SystemRows(rows)}
        \cup
        {[tick |-> r.tick, container_id |-> r.container_id,
          timestamp |-> r.timestamp] : r \in ContainerRows(rows)})

\* A look-up that finds a Container row for every runtime container.
HasRow_any(c) == TRUE

\* `select(Container).where(Container.container_id == container_id)` finds a
\* row.
HasRow(c) == \E row \in containers : row.container_id = c

\* No request is being answered.
NoResult == [op |-> "none", period |-> "", aggregate |-> FALSE,
             container_id |-> 0, rows |-> <<>>]

\* ------------------------------------------------------------- Init
\* No snapshot has been read.
NoParsed == <<>>

DockerIdle == parsed = NoParsed

\* No request has reached the middleware.
RateIdle ==
    /\ wNow = 0
    /\ RATE_LIMIT_STORE = <<>>
    /\ dispatched = <<>>

\* No request has reached the middleware, no token exists.
WebIdle ==
    /\ RateIdle
    /\ TOKEN_BLACKLIST = {}
    /\ issued = {}
    /\ authCalls = <<>>
    /\ exchanged = <<>>

HistIdle ==
    /\ hNow = 0
    /\ hTz = 0
    /\ hTable = "system_stats"
    /\ hStore = {}
    /\ hResult = NoResult

CollectorInit ==
    /\ running = FALSE
    /\ task = 0
    /\ tasks = [t \in TaskIds |-> NoTask]
    /\ numTasks = 0
    /\ stopPc = "idle"
    /\ stopTask = 0
    /\ now = 0
    /\ containers = {ContainerRow(c) : c \in Mapped}
    /\ systemStats = EmptyBag
    /\ containerStats = EmptyBag
    /\ numTicks = 0

Init == CollectorInit /\ HistIdle /\ DockerIdle /\ WebIdle

\* ------------------------------------------------------------- start, stop
\* MetricsCollector.start without its guard on _running.
start_unguarded ==
    /\ numTasks < MaxTasks
    /\ running' = TRUE
    /\ numTasks' = numTasks + 1
    /\ task' = numTasks + 1
    /\ tasks' = [tasks EXCEPT ![numTasks + 1] = [NoTask EXCEPT !.pc = "ready"]]
    /\ UNCHANGED <<histVars, dockerVars, webVars,
                   stopPc, stopTask, now, containers, systemStats,
                   containerStats, numTicks>>

\* MetricsCollector.start: no await in it, one step.
start ==
    IF running
    THEN UNCHANGED vars
    ELSE /\ numTasks < MaxTasks
         /\ running' = TRUE
         /\ numTasks' = numTasks + 1
         /\ task' = numTasks + 1
         /\ tasks' = [tasks EXCEPT ![numTasks + 1] = [NoTask EXCEPT !.pc = "ready"]]
         /\ UNCHANGED <<histVars, dockerVars, webVars,
                        stopPc, stopTask, now, containers, systemStats,
                        containerStats, numTicks>>

\* Task.cancel(): a finished task ignores it, any other gets CancelledError
\* at the await it is suspended on.
CancelRequested(t) ==
    [tasks EXCEPT ![t].cancel = tasks[t].pc \notin {"none", "done"}]

\* MetricsCollector.stop without the cancellation of the task.
StopBegin_nocancel ==
    /\ stopPc = "idle"
    /\ running' = FALSE
    /\ IF task # 0 /\ tasks[task].pc # "done"
       THEN /\ stopPc' = "await"
            /\ stopTask' = task
       ELSE UNCHANGED <<stopPc, stopTask>>
    /\ UNCHANGED <<histVars, dockerVars, webVars,
                   task, tasks, numTasks, now, containers, systemStats,
                   containerStats, numTicks>>

\* MetricsCollector.stop, lines 28-32: up to `await self._task`.  With no
\* task, or a task that has ended, nothing is awaited: engine.dispose() and
\* the return follow.
StopBegin ==
    /\ stopPc = "idle"
    /\ running' = FALSE
    /\ IF task # 0 /\ tasks[task].pc # "done"
       THEN /\ tasks' = CancelRequested(task)
            /\ stopPc' = "await"
            /\ stopTask' = task
       ELSE UNCHANGED <<tasks, stopPc, stopTask>>
    /\ UNCHANGED <<histVars, dockerVars, webVars,
                   task, numTasks, now, containers, systemStats,
                   containerStats, numTicks>>

\* MetricsCollector.stop, lines 32-37: the awaited task has ended,
\* engine.dispose(), stop returns.
StopReturn ==
    /\ stopPc = "await"
    /\ tasks[stopTask].pc = "done"
    /\ stopPc' = "idle"
    /\ stopTask' = 0
    /\ UNCHANGED <<histVars, dockerVars, webVars,
                   running, task, tasks, numTasks, now, containers,
                   systemStats, containerStats, numTicks>>

\* ------------------------------------------------------------- the loop
\* The event loop runs its ready callbacks first in, first out: the wake-up
\* that cancel() scheduled for a task precedes the first step of any task
\* created after it.
NoCancelPending(t) ==
    \A u \in TaskIds \ {t} :
        ~(tasks[u].cancel /\ tasks[u].pc \notin {"none", "closing", "done"})

\* The task after its tick has ended: `await asyncio.sleep(self.interval)`,
\* line 62.
Sleeping(t, outcome) ==
    [NoTask EXCEPT !.pc = "sleep", !.tick = tasks[t].tick,
                   !.wake = now + interval, !.outcome = outcome,
                   !.listed = tasks[t].listed]

\* The task after it has ended.
Ended == [NoTask EXCEPT !.pc = "done"]

\* An exception that leaves the loop: what _collection_loop would do without
\* its `except Exception`.
TickFails_propagates(t, reason) ==
    tasks' = [tasks EXCEPT ![t] = Ended]

\* The exception reaches `except Exception` of the loop (lines 59-62): the
\* session is closed, what it staged is rolled back, the loop sleeps.
TickFails(t, reason) ==
    tasks' = [tasks EXCEPT ![t] = Sleeping(t, reason)]

\* The loop goes on to the next container, or to session.commit().
Advance(t, failedCtr) ==
    LET rest == Tail(tasks[t].todo) IN
    /\ tasks' = [tasks EXCEPT ![t].todo = rest, ![t].staged = {},
                              ![t].failed = @ \cup failedCtr,
                              ![t].pc = IF rest = <<>> THEN "final_commit"
                                        ELSE "ctr"]

\* Lines 40-48 and collect_and_store_system_stats up to `await db.commit()`:
\* the loop's test, the host snapshot (which may raise), db.add.
TickBegin(t) ==
    /\ ~tasks[t].cancel
    /\ \/ tasks[t].pc = "ready" /\ NoCancelPending(t)
       \/ tasks[t].pc = "sleep" /\ now >= tasks[t].wake
    /\ IF ~running
       THEN /\ tasks' = [tasks EXCEPT ![t] = Ended]
            /\ UNCHANGED numTicks
       ELSE /\ numTicks < MaxTicks
            /\ numTicks' = numTicks + 1
            /\ \E ok \in BOOLEAN :
                 LET k == numTicks + 1 IN
                 IF ok
                 THEN tasks' = [tasks EXCEPT ![t] =
                            [NoTask EXCEPT !.pc = "host_commit", !.tick = k,
                                !.outcome = "running",
                                !.staged = {[kind |-> "system", tick |-> k,
                                             container_id |-> 0,
                                             timestamp |-> utcnow(k)]}]]
                 ELSE tasks' = [tasks EXCEPT ![t] =
                            [NoTask EXCEPT !.pc = "sleep", !.tick = k,
                                !.outcome = "host_failed",
                                !.wake = now + interval]]
    /\ UNCHANGED <<histVars, dockerVars, webVars,
                   running, task, numTasks, stopPc, stopTask, now, containers,
                   systemStats, containerStats>>

\* collect_and_store_system_stats without its commit: the host row stays in
\* the session when the loop goes on to the containers.
HostCommit_deferred(t) ==
    /\ tasks[t].pc = "host_commit"
    /\ ~tasks[t].cancel
    /\ tasks' = [tasks EXCEPT ![t].pc = "list"]
    /\ UNCHANGED <<histVars, dockerVars, webVars,
                   running, task, numTasks, stopPc, stopTask, now, containers,
                   systemStats, containerStats, numTicks>>

\* collect_and_store_system_stats, lines 306-313: the commit of the host row.
HostCommit(t) ==
    /\ tasks[t].pc = "host_commit"
    /\ ~tasks[t].cancel
    /\ \E ok \in BOOLEAN :
         IF ok
         THEN /\ systemStats' =
                    Inserted(systemStats, SystemRows(tasks[t].staged))
              /\ tasks' = [tasks EXCEPT ![t].pc = "list", ![t].staged = {}]
         ELSE /\ TickFails(t, "commit_failed")
              /\ UNCHANGED systemStats
    /\ UNCHANGED <<histVars, dockerVars, webVars,
                   running, task, numTasks, stopPc, stopTask, now, containers,
                   containerStats, numTicks>>

\* Line 52, DockerService.list_all_containers: the client property raises when
\* the socket is unreachable; a failed list call returns [].
ListContainers(t) ==
    /\ tasks[t].pc = "list"
    /\ ~tasks[t].cancel
    /\ \/ tasks' = [tasks EXCEPT ![t] =
                    [Sleeping(t, "list_failed") EXCEPT !.listed = TRUE]]
       \/ \E e \in Enumerations(RuntimeIds) :
            tasks' = [tasks EXCEPT ![t].todo = e, ![t].enum = Range(e),
                         ![t].listed = TRUE,
                         ![t].pc = IF e = <<>> THEN "final_commit" ELSE "ctr"]
    /\ UNCHANGED <<histVars, dockerVars, webVars,
                   running, task, numTasks, stopPc, stopTask, now, containers,
                   systemStats, containerStats, numTicks>>

\* collect_and_store_container_stats, lines 315-342: the runtime snapshot
\* ("ok", an {"error": ..} result, or the client property raising), the
\* look-up of the Container row, db.add.
ContainerSample(t) ==
    /\ tasks[t].pc = "ctr"
    /\ ~tasks[t].cancel
    /\ LET c == Head(tasks[t].todo) IN
       \E res \in {"ok", "error", "raise"} :
         CASE res = "raise" -> TickFails(t, "sample_failed")
           [] res = "error" -> Advance(t, {c})
           [] res = "ok" ->
                IF HasRow(c)
                THEN tasks' = [tasks EXCEPT ![t].pc = "ctr_commit",
                           ![t].staged = {[kind |-> "container",
                                           tick |-> tasks[t].tick,
                                           container_id |-> DbId(c),
                                           timestamp |-> utcnow(numTicks)]}]
                ELSE Advance(t, {})
    /\ UNCHANGED <<histVars, dockerVars, webVars,
                   running, task, numTasks, stopPc, stopTask, now, containers,
                   systemStats, containerStats, numTicks>>

\* collect_and_store_container_stats, lines 343-346: the commit of the row.
ContainerCommit(t) ==
    /\ tasks[t].pc = "ctr_commit"
    /\ ~tasks[t].cancel
    /\ \E ok \in BOOLEAN :
         IF ok
         THEN /\ containerStats' =
                    Inserted(containerStats, ContainerRows(tasks[t].staged))
              /\ Advance(t, {})
         ELSE /\ TickFails(t, "commit_failed")
              /\ UNCHANGED containerStats
    /\ UNCHANGED <<histVars, dockerVars, webVars,
                   running, task, numTasks, stopPc, stopTask, now, containers,
                   systemStats, numTicks>>

\* Lines 58-62: session.commit() with nothing left to write, then the sleep.
FinalCommit(t) ==
    /\ tasks[t].pc = "final_commit"
    /\ ~tasks[t].cancel
    /\ \E ok \in BOOLEAN :
         IF ok
         THEN tasks' = [tasks EXCEPT ![t] = Sleeping(t, "committed")]
         ELSE TickFails(t, "commit_failed")
    /\ UNCHANGED <<histVars, dockerVars, webVars,
                   running, task, numTasks, stopPc, stopTask, now, containers,
                   systemStats, containerStats, numTicks>>

\* CancelledError is raised at the await the task is suspended on.  It is no
\* Exception: it leaves the loop.  `async with` closes the session.
TaskCancelled(t) ==
    /\ tasks[t].cancel
    /\ tasks[t].pc \notin {"none", "closing", "done"}
    /\ tasks' = [tasks EXCEPT ![t] =
           IF Collecting(t)
           THEN [@ EXCEPT !.pc = "closing", !.cancel = FALSE,
                          !.outcome = "cancelled"]
           ELSE Ended]
    /\ UNCHANGED <<histVars, dockerVars, webVars,
                   running, task, numTasks, stopPc, stopTask, now, containers,
                   systemStats, containerStats, numTicks>>

\* The session of a cancelled tick is closed and the task ends.  A commit
\* that was in flight when the task was cancelled has reached the database or
\* is rolled back.
TaskClosed(t) ==
    /\ tasks[t].pc = "closing"
    /\ \E landed \in BOOLEAN :
         LET rows == IF landed THEN tasks[t].staged ELSE {} IN
         /\ systemStats' = Inserted(systemStats, SystemRows(rows))
         /\ containerStats' = Inserted(containerStats, ContainerRows(rows))
    /\ tasks' = [tasks EXCEPT ![t] = Ended]
    /\ UNCHANGED <<histVars, dockerVars, webVars,
                   running, task, numTasks, stopPc, stopTask, now, containers,
                   numTicks>>

\* Time passes.
TimeAdvance ==
    /\ now + 30 <= MaxTime
    /\ now' = now + 30
    /\ UNCHANGED <<histVars, dockerVars, webVars,
                   running, task, tasks, numTasks, stopPc, stopTask,
                   containers, systemStats, containerStats, numTicks>>

Next ==
    \/ start
    \/ StopBegin
    \/ StopReturn
    \/ TimeAdvance
    \/ \E t \in TaskIds : TickBegin(t)
    \/ \E t \in TaskIds : HostCommit(t)
    \/ \E t \in TaskIds : ListContainers(t)
    \/ \E t \in TaskIds : ContainerSample(t)
    \/ \E t \in TaskIds : ContainerCommit(t)
    \/ \E t \in TaskIds : FinalCommit(t)
    \/ \E t \in TaskIds : TaskCancelled(t)
    \/ \E t \in TaskIds : TaskClosed(t)

Spec == Init /\ [][Next]_vars

\* The event loop runs every ready task, and time passes.
FairSpec ==
    /\ Spec
    /\ WF_vars(TimeAdvance)
    /\ \A t \in TaskIds : WF_vars(TickBegin(t))

\* ------------------------------------------------------------- history
\* Rows per table.
MaxSamples == 3

\* The periods the API accepts (router.py, the pattern of `period`).
PeriodNames == {"1h", "6h", "24h", "7d", "30d"}

\* The instants of a query, seconds since 1970-01-01 00:00:00 UTC.
HistNows == {14400000}

\* How long before the query a sample was taken, seconds.
Ages == {0, 60, 3540, 3600, 21600, 86400, 604800, 2592000, 2592060}

\* The UTC offsets of the server's local time zone: UTC, UTC+05:30.
TzOffsets == {0, 19800}

\* What a host sample reads (the columns the history uses).
SystemReadings ==
    { [cpu_usage |-> 10, memory_usage |-> 60, disk_usage |-> 70,
       load_avg_1m |-> 1, network_rx |-> 100, network_tx |-> 10],
      [cpu_usage |-> 20, memory_usage |-> 40, disk_usage |-> 71,
       load_avg_1m |-> 3, network_rx |-> 200, network_tx |-> 20],
      [cpu_usage |-> 30, memory_usage |-> 50, disk_usage |-> 72,
       load_avg_1m |-> 2, network_rx |-> 300, network_tx |-> 30] }

\* What a container sample reads.
ContainerReadings ==
    { [cpu_usage |-> 10, memory_usage |-> 60, network_rx |-> 100,
       network_tx |-> 10],
      [cpu_usage |-> 20, memory_usage |-> 40, network_rx |-> 200,
       network_tx |-> 20],
      [cpu_usage |-> 30, memory_usage |-> 50, network_rx |-> 300,
       network_tx |-> 30] }

\* A row of system_stats.  A timestamp is a naive datetime holding UTC
\* (datetime.utcnow), in seconds.
SystemStats(ts, r) ==
    [timestamp |-> ts, cpu_usage |-> r.cpu_usage,
     memory_usage |-> r.memory_usage, disk_usage |-> r.disk_usage,
     load_avg_1m |-> r.load_avg_1m, network_rx |-> r.network_rx,
     network_tx |-> r.network_tx]

\* A row of container_stats.
ContainerStats(id, ts, r) ==
    [container_id |-> id, timestamp |-> ts, cpu_usage |-> r.cpu_usage,
     memory_usage |-> r.memory_usage, network_rx |-> r.network_rx,
     network_tx |-> r.network_tx]

SystemTable == IF hTable = "system_stats" THEN hStore ELSE {}

ContainerTable == IF hTable = "container_stats" THEN hStore ELSE {}

\* Thirty days for every period.
periods_month(period) == 2592000

\* `periods.get(period, timedelta(hours=1))`, seconds.
periods(period) ==
    CASE period = "1h" -> 3600
      [] period = "6h" -> 21600
      [] period = "24h" -> 86400
      [] period = "7d" -> 604800
      [] period = "30d" -> 2592000
      [] OTHER -> 3600

\* The table with the width of "24h" given to "7d" too.
interval_map_quarter(period) ==
    CASE period = "1h" -> 60
      [] period = "6h" -> 300
      [] period = "24h" -> 900
      [] period = "7d" -> 900
      [] period = "30d" -> 14400
      [] OTHER -> 60

\* `interval_map.get(period, 60)`.
interval_map(period) ==
    CASE period = "1h" -> 60
      [] period = "6h" -> 300
      [] period = "24h" -> 900
      [] period = "7d" -> 3600
      [] period = "30d" -> 14400
      [] OTHER -> 60

\* The WHERE clause with a strict comparison.
InWindow_exclusive(ts, start_time) == ts > start_time

\* The WHERE clause on the timestamp: `timestamp >= start_time`.
InWindow(ts, start_time) == ts >= start_time

\* ORDER BY timestamp ASC (no two rows of a query share a timestamp).
RECURSIVE order_by_timestamp(_)
order_by_timestamp(rows) ==
    IF rows = {} THEN <<>>
    ELSE LET first == CHOOSE x \in rows :
                          \A y \in rows : x.timestamp <= y.timestamp
         IN  <<first>> \o order_by_timestamp(rows \ {first})

\* sorted() of the keys of a dict.
RECURSIVE sorted(_)
sorted(keys) ==
    IF keys = {} THEN <<>>
    ELSE LET first == CHOOSE x \in keys : \A y \in keys : x <= y
         IN  <<first>> \o sorted(keys \ {first})

\* datetime.timestamp() of a naive datetime: the datetime is read as local
\* time, so the offset of the local zone is taken off.
datetime_timestamp(d) == d - hTz

\* datetime.fromtimestamp(x): the naive datetime of x in local time.
datetime_fromtimestamp(x) == x + hTz

\* int(a / b): the quotient, truncated towards zero.
int_quotient(a, b) == IF a >= 0 THEN a \div b ELSE -((-a) \div b)

\* The key of the bucket of a row: interval_key, lines 440-441 and 500-501.
interval_key(ts, interval_seconds) ==
    datetime_fromtimestamp(
        int_quotient(datetime_timestamp(ts), interval_seconds)
            * interval_seconds)

RECURSIVE sum(_)
sum(values) ==
    IF values = <<>> THEN 0 ELSE Head(values) + sum(Tail(values))

max(values) == CHOOSE x \in Range(values) : \A y \in Range(values) : y <= x

min(values) == CHOOSE x \in Range(values) : \A y \in Range(values) : x <= y

\* sum(values) / len(values), as the fraction it is.
avg(values) == [num |-> sum(values), den |-> Len(values)]

\* values[0]: the first row of the bucket in place of the last.
last_as_first(values) == values[1]

\* values[-1].
last(values) == values[Len(values)]

\* StatsService._aggregate_system_stats.
_aggregate_system_stats(stats, period) ==
    IF stats = <<>> THEN <<>>
    ELSE
    LET interval_seconds == interval_map(period)
        key(s) == interval_key(s.timestamp, interval_seconds)
        keys == sorted({key(stats[i]) : i \in DOMAIN stats})
        entry(k) ==
            LET values == SelectSeq(stats, LAMBDA s : key(s) = k)
                cpu_usage == [i \in DOMAIN values |-> values[i].cpu_usage]
                memory_usage == [i \in DOMAIN values |-> values[i].memory_usage]
            IN  [timestamp |-> k,
                 cpu_usage_avg |-> avg(cpu_usage),
                 cpu_usage_max |-> max(cpu_usage),
                 cpu_usage_min |-> min(cpu_usage),
                 memory_usage_avg |-> avg(memory_usage),
                 memory_usage_max |-> max(memory_usage),
                 memory_usage_min |-> min(memory_usage),
                 network_rx |-> last(values).network_rx,
                 network_tx |-> last(values).network_tx,
                 disk_usage |-> last(values).disk_usage,
                 load_avg_1m |-> last(values).load_avg_1m]
    IN  [i \in DOMAIN keys |-> entry(keys[i])]

\* StatsService._aggregate_container_stats.
_aggregate_container_stats(stats, period) ==
    IF stats = <<>> THEN <<>>
    ELSE
    LET interval_seconds == interval_map(period)
        key(s) == interval_key(s.timestamp, interval_seconds)
        keys == sorted({key(stats[i]) : i \in DOMAIN stats})
        entry(k) ==
            LET values == SelectSeq(stats, LAMBDA s : key(s) = k)
                cpu_usage == [i \in DOMAIN values |-> values[i].cpu_usage]
                memory_usage == [i \in DOMAIN values |-> values[i].memory_usage]
            IN  [timestamp |-> k,
                 cpu_usage_avg |-> avg(cpu_usage),
                 cpu_usage_max |-> max(cpu_usage),
                 memory_usage_avg |-> avg(memory_usage),
                 memory_usage_max |-> max(memory_usage),
                 network_rx |-> last(values).network_rx,
                 network_tx |-> last(values).network_tx]
    IN  [i \in DOMAIN keys |-> entry(keys[i])]

\* StatsService._serialize_system_stat: the columns, copied.
_serialize_system_stat(stat) ==
    [cpu_usage |-> stat.cpu_usage, memory_usage |-> stat.memory_usage,
     disk_usage |-> stat.disk_usage, network_rx |-> stat.network_rx,
     network_tx |-> stat.network_tx, load_avg_1m |-> stat.load_avg_1m,
     timestamp |-> stat.timestamp]

\* The serializer with network_rx and network_tx taken from each other.
_serialize_container_stat_swapped(stat) ==
    [container_id |-> stat.container_id, cpu_usage |-> stat.cpu_usage,
     memory_usage |-> stat.memory_usage, network_rx |-> stat.network_tx,
     network_tx |-> stat.network_rx, timestamp |-> stat.timestamp]

\* StatsService._serialize_container_stat.
_serialize_container_stat(stat) ==
    [container_id |-> stat.container_id, cpu_usage |-> stat.cpu_usage,
     memory_usage |-> stat.memory_usage, network_rx |-> stat.network_rx,
     network_tx |-> stat.network_tx, timestamp |-> stat.timestamp]

\* StatsService.get_system_stats_history.
get_system_stats_history(period, aggregate) ==
    LET start_time == hNow - periods(period)
        stats == order_by_timestamp(
                     {s \in SystemTable : InWindow(s.timestamp, start_time)})
    IN  IF aggregate /\ Len(stats) > 0
        THEN _aggregate_system_stats(stats, period)
        ELSE [i \in DOMAIN stats |-> _serialize_system_stat(stats[i])]

\* StatsService.get_container_stats_history.
get_container_stats_history(container_id, period, aggregate) ==
    LET start_time == hNow - periods(period)
        stats == order_by_timestamp(
                     {s \in ContainerTable :
                         /\ s.container_id = DbId(container_id)
                         /\ InWindow(s.timestamp, start_time)})
    IN  IF ~HasRow(container_id)
        THEN <<>>
        ELSE IF aggregate /\ Len(stats) > 0
             THEN _aggregate_container_stats(stats, period)
             ELSE [i \in DOMAIN stats |-> _serialize_container_stat(stats[i])]

HistInit ==
    /\ CollectorInit
    /\ DockerIdle
    /\ WebIdle
    /\ hNow \in HistNows
    /\ hTz \in TzOffsets
    /\ hTable \in {"system_stats", "container_stats"}
    /\ hStore = {}
    /\ hResult = NoResult

\* A host sample taken `age` seconds before the query is in system_stats.
SeedSystem(age, reading) ==
    /\ hTable = "system_stats"
    /\ hResult = NoResult
    /\ Cardinality(hStore) < MaxSamples
    /\ \A s \in hStore : s.timestamp # hNow - age
    /\ hStore' = hStore \cup {SystemStats(hNow - age, reading)}
    /\ UNCHANGED <<collVars, dockerVars, webVars, hNow, hTz, hTable, hResult>>

\* A sample of container c taken `age` seconds before the query is in
\* container_stats.
SeedContainer(c, age, reading) ==
    /\ hTable = "container_stats"
    /\ hResult = NoResult
    /\ HasRow(c)
    /\ Cardinality(hStore) < MaxSamples
    /\ \A s \in hStore : s.timestamp # hNow - age
    /\ hStore' = hStore \cup {ContainerStats(DbId(c), hNow - age, reading)}
    /\ UNCHANGED <<collVars, dockerVars, webVars, hNow, hTz, hTable, hResult>>

\* A request for the system history is answered.
QuerySystem(period, aggregate) ==
    /\ hTable = "system_stats"
    /\ hResult = NoResult
    /\ hResult' = [op |-> "system", period |-> period,
                   aggregate |-> aggregate, container_id |-> 0,
                   rows |-> get_system_stats_history(period, aggregate)]
    /\ UNCHANGED <<collVars, dockerVars, webVars, hNow, hTz, hTable, hStore>>

\* A request for the history of a container is answered.
QueryContainer(container_id, period, aggregate) ==
    /\ hTable = "container_stats"
    /\ hResult = NoResult
    /\ hResult' = [op |-> "container", period |-> period,
                   aggregate |-> aggregate, container_id |-> container_id,
                   rows |-> get_container_stats_history(container_id, period,
                                                        aggregate)]
    /\ UNCHANGED <<collVars, dockerVars, webVars, hNow, hTz, hTable, hStore>>

\* The metrics GET /stats/trends accepts (router.py, the pattern of `metric`).
TrendMetrics == {"cpu", "memory", "disk", "network"}

\* A number as the fraction it is; avg() yields fractions already.
fraction(v) == IF v \in Int THEN [num |-> v, den |-> 1] ELSE v

\* dict.get(key, 0).
get(entry, key) ==
    IF key \in DOMAIN entry THEN fraction(entry[key]) ELSE fraction(0)

\* `x.get(f"{metric}_avg", 0) or x.get(metric, 0)`: the second lookup when
\* the first is absent or zero.
metric_value(entry, metric) ==
    IF get(entry, metric \o "_avg").num # 0
    THEN get(entry, metric \o "_avg")
    ELSE get(entry, metric)

\* ((last_value - first_value) / first_value) * 100, as a fraction; 0 when
\* first_value is not positive.
change_percent(first_value, last_value) ==
    IF first_value.num > 0
    THEN [num |-> (last_value.num * first_value.den
                      - first_value.num * last_value.den) * 100,
          den |-> first_value.num * last_value.den]
    ELSE fraction(0)

\* round(x, 2) of a fraction, in hundredths: the nearest, a tie to the even.
round_2(x) ==
    LET n == x.num * 100
        q == n \div x.den
        r == n - q * x.den
    IN  IF 2 * r < x.den THEN q
        ELSE IF 2 * r > x.den THEN q + 1
        ELSE IF q % 2 = 0 THEN q ELSE q + 1

\* StatsService.get_resource_trends; change_percent in hundredths.
get_resource_trends(metric, period) ==
    LET stats == get_system_stats_history(period, TRUE)
        first_value == metric_value(stats[1], metric)
        last_value == metric_value(stats[Len(stats)], metric)
        change == change_percent(first_value, last_value)
        trend == IF change.num > 5 * change.den THEN "increasing"
                 ELSE IF change.num < (-5) * change.den THEN "decreasing"
                 ELSE "stable"
    IN  IF stats = <<>>
        THEN [op |-> "trends", metric |-> metric, period |-> period,
              trend |-> "unknown", change_percent |-> 0, data |-> <<>>]
        ELSE IF Len(stats) < 2
        THEN [op |-> "trends", metric |-> metric, period |-> period,
              trend |-> "stable", change_percent |-> 0, data |-> stats]
        ELSE [op |-> "trends", metric |-> metric, period |-> period,
              trend |-> trend, change_percent |-> round_2(change),
              data |-> stats]

\* GET /stats/trends is answered.
QueryTrends(metric, period) ==
    /\ hTable = "system_stats"
    /\ hResult = NoResult
    /\ hResult' = get_resource_trends(metric, period)
    /\ UNCHANGED <<collVars, dockerVars, webVars, hNow, hTz, hTable, hStore>>

\* The retentions asked of POST /stats/prune, days (the API allows 1..365).
RetentionDays == {1, 7, 30}

\* `timestamp <= cutoff_date`: the sample at the cutoff is deleted too.
Expired_inclusive(ts, cutoff_date) == ts <= cutoff_date

\* The WHERE clause of the two DELETEs: `timestamp < cutoff_date`.
Expired(ts, cutoff_date) == ts < cutoff_date

\* StatsService.prune_old_stats: what it returns and what it leaves stored.
prune_old_stats(retention_days) ==
    LET cutoff_date == hNow - retention_days * 86400
        system_deleted ==
            Cardinality({s \in SystemTable : Expired(s.timestamp, cutoff_date)})
        container_deleted ==
            Cardinality({s \in ContainerTable :
                            Expired(s.timestamp, cutoff_date)})
    IN  [result |-> [op |-> "prune", retention_days |-> retention_days,
                     system_stats_deleted |-> system_deleted,
                     container_stats_deleted |-> container_deleted],
         store |-> {s \in hStore : ~Expired(s.timestamp, cutoff_date)}]

\* POST /stats/prune is answered; it may be called again at once.
Prune(retention_days) ==
    /\ hResult = NoResult \/ hResult.op = "prune"
    /\ hResult' = prune_old_stats(retention_days).result
    /\ hStore' = prune_old_stats(retention_days).store
    /\ UNCHANGED <<collVars, dockerVars, webVars, hNow, hTz, hTable>>

\* The response has been sent.
Respond ==
    /\ hResult # NoResult
    /\ hResult' = NoResult
    /\ UNCHANGED <<collVars, dockerVars, webVars, hNow, hTz, hTable, hStore>>

HistNext ==
    \/ \E age \in Ages : \E reading \in SystemReadings :
          SeedSystem(age, reading)
    \/ \E age \in Ages : \E reading \in ContainerReadings :
          SeedContainer(1, age, reading)
    \/ \E period \in PeriodNames : \E aggregate \in BOOLEAN :
          QuerySystem(period, aggregate)
    \/ \E c \in {1, MaxContainers} : \E period \in PeriodNames :
          \E aggregate \in BOOLEAN : QueryContainer(c, period, aggregate)
    \/ \E retention_days \in RetentionDays : Prune(retention_days)
    \/ Respond

HistSpec == HistInit /\ [][HistNext]_vars

\* ------------------------------------------------------------- dense
\* The instants of a query over a densely sampled week: every five minutes
\* of one hour.
DenseNows == {14400000 + 300 * k : k \in 0..11}

\* How long after the start of the window the first sample was taken, seconds.
DensePhases == {0, 30, 60}

\* The samples of one week, one every 60 seconds: 10,080 of them.
DenseWeek(first, reading) ==
    {SystemStats(first + 60 * i, reading) : i \in 0..10079}

\* The keys of the dict `aggregated`: one for each bucket that has a row.
aggregated_keys(stats, period) ==
    {interval_key(s.timestamp, interval_map(period)) : s \in stats}

\* len() of get_system_stats_history(period, aggregate=True): the number of
\* buckets of the rows in the window.
history_length(period) ==
    LET start_time == hNow - periods(period)
    IN  Cardinality(
            aggregated_keys({s \in SystemTable : InWindow(s.timestamp, start_time)},
                            period))

\* The host has been sampled every 60 seconds for the seven days before the
\* query.
DenseInit ==
    /\ CollectorInit
    /\ DockerIdle
    /\ WebIdle
    /\ hNow \in DenseNows
    /\ hTz \in TzOffsets
    /\ hTable = "system_stats"
    /\ \E phase \in DensePhases :
          hStore = DenseWeek(hNow - periods("7d") + phase,
                             CHOOSE r \in SystemReadings : r.cpu_usage = 10)
    /\ hResult = NoResult

\* The aggregated system history of a period is asked for; the number of its
\* entries is kept.
QueryLength(period) ==
    /\ hResult = NoResult
    /\ hResult' = [op |-> "length", period |-> period,
                   length |-> history_length(period)]
    /\ UNCHANGED <<collVars, dockerVars, webVars, hNow, hTz, hTable, hStore>>

DenseNext == QueryLength("7d") \/ Respond

DenseSpec == DenseInit /\ [][DenseNext]_vars

\* ------------------------------------------------------------- analytics
\* The metrics GET /stats/top-consumers accepts, and the limits asked
\* (router.py: 1..50).
ConsumerMetrics == {"cpu", "memory", "network"}

Limits == {1, 2}

\* The ages of the samples the analytics are asked about, seconds.
AnalyticsAges == {0, 60, 21600, 604800}

\* The container_ids asked of GET /stats/compare.
CompareIds == {<<1>>, <<1, 2>>}

\* The window of get_top_consumers: its own table, without "6h" and "30d".
top_consumers_delta(period) ==
    CASE period = "1h" -> 3600
      [] period = "24h" -> 86400
      [] period = "7d" -> 604800
      [] OTHER -> 3600

\* The orders in which a SELECT without ORDER BY may return the rows.
StorageOrders(rows) ==
    {e \in Enumerations(rows) : Len(e) = Cardinality(rows)}

\* The keys of the dict container_stats, in the order of their insertion: a
\* container_id enters when its first row is met.
insertion_order(stats) ==
    LET firsts == SelectSeq([i \in DOMAIN stats |-> i],
                            LAMBDA i : \A j \in 1..(i - 1) :
                                stats[j].container_id # stats[i].container_id)
    IN  [k \in DOMAIN firsts |-> stats[firsts[k]].container_id]

\* a < b for fractions with positive denominators.
less(a, b) == a.num * b.den < b.num * a.den

\* list.sort(key=..., reverse=True): descending by key; the sort is stable,
\* entries with equal keys keep the order they had.
RECURSIVE sort_reverse(_)
sort_reverse(entries) ==
    IF entries = <<>> THEN <<>>
    ELSE LET i == CHOOSE i \in DOMAIN entries :
                      \A j \in DOMAIN entries :
                          /\ ~less(entries[i].key, entries[j].key)
                          /\ j < i => less(entries[j].key, entries[i].key)
             rest == [k \in 1..(Len(entries) - 1) |->
                         IF k < i THEN entries[k] ELSE entries[k + 1]]
         IN  <<entries[i]>> \o sort_reverse(rest)

\* The entry of one container in get_top_consumers.
consumer(container, container_data) ==
    LET cpu_usage == [i \in DOMAIN container_data |-> container_data[i].cpu_usage]
        memory_usage ==
            [i \in DOMAIN container_data |-> container_data[i].memory_usage]
        network == [i \in DOMAIN container_data |->
                       container_data[i].network_rx + container_data[i].network_tx]
    IN  [container_id |-> container.container_id,
         avg_cpu |-> avg(cpu_usage), max_cpu |-> max(cpu_usage),
         avg_memory |-> avg(memory_usage), max_memory |-> max(memory_usage),
         total_network |-> sum(network)]

\* StatsService.get_top_consumers, the SELECT returning the rows in the order
\* `scan`.
get_top_consumers(metric, limit, period, scan) ==
    LET start_time == hNow - top_consumers_delta(period)
        stats == SelectSeq(scan, LAMBDA s : s.timestamp >= start_time)
        ids == SelectSeq(insertion_order(stats),
                         LAMBDA id : \E row \in containers : row.id = id)
        entry(id) ==
            LET container == CHOOSE row \in containers : row.id = id
                c == consumer(container,
                              SelectSeq(stats, LAMBDA s : s.container_id = id))
            IN  [key |-> CASE metric = "cpu" -> c.avg_cpu
                           [] metric = "memory" -> c.avg_memory
                           [] metric = "network" -> fraction(c.total_network),
                 item |-> c]
        consumers == sort_reverse([k \in DOMAIN ids |-> entry(ids[k])])
    IN  [k \in 1..(IF Len(consumers) < limit THEN Len(consumers) ELSE limit)
            |-> consumers[k].item]

\* StatsService.compare_containers.
compare_containers(container_ids, metric, period) ==
    [op |-> "compare", container_ids |-> container_ids, period |-> period,
     metric |-> metric,
     data |-> [c \in Range(container_ids) |->
                  get_container_stats_history(c, period, TRUE)]]

\* Every runtime container has a Container row; nothing is stored yet.
AnalyticsInit ==
    /\ WebIdle
    /\ running = FALSE
    /\ task = 0
    /\ tasks = [t \in TaskIds |-> NoTask]
    /\ numTasks = 0
    /\ stopPc = "idle"
    /\ stopTask = 0
    /\ now = 0
    /\ containers = {ContainerRow(c) : c \in RuntimeIds}
    /\ systemStats = EmptyBag
    /\ containerStats = EmptyBag
    /\ numTicks = 0
    /\ DockerIdle
    /\ hNow \in HistNows
    /\ hTz \in TzOffsets
    /\ hTable \in {"system_stats", "container_stats"}
    /\ hStore = {}
    /\ hResult = NoResult

\* GET /stats/top-consumers is answered.
TopConsumers(metric, limit, period) ==
    /\ hTable = "container_stats"
    /\ hResult = NoResult
    /\ \E scan \in StorageOrders(ContainerTable) :
          hResult' = [op |-> "top", metric |-> metric, limit |-> limit,
                      period |-> period,
                      rows |-> get_top_consumers(metric, limit, period, scan)]
    /\ UNCHANGED <<collVars, dockerVars, webVars, hNow, hTz, hTable, hStore>>

\* GET /stats/compare is answered.
Compare(container_ids, metric, period) ==
    /\ hTable = "container_stats"
    /\ hResult = NoResult
    /\ hResult' = compare_containers(container_ids, metric, period)
    /\ UNCHANGED <<collVars, dockerVars, webVars, hNow, hTz, hTable, hStore>>

AnalyticsNext ==
    \/ \E age \in AnalyticsAges : \E reading \in SystemReadings :
          SeedSystem(age, reading)
    \/ \E c \in RuntimeIds : \E age \in AnalyticsAges :
          \E reading \in ContainerReadings : SeedContainer(c, age, reading)
    \/ \E metric \in TrendMetrics : \E period \in PeriodNames :
          QueryTrends(metric, period)
    \/ \E metric \in ConsumerMetrics : \E limit \in Limits :
          \E period \in PeriodNames : TopConsumers(metric, limit, period)
    \/ \E container_ids \in CompareIds : \E period \in PeriodNames :
          Compare(container_ids, "cpu", period)
    \/ Respond

AnalyticsSpec == AnalyticsInit /\ [][AnalyticsNext]_vars

\* ------------------------------------------------------------- snapshot
\* The cumulative CPU time of the container and of the host, and the memory
\* readings, a snapshot may hold.
CpuCounters == {0, 100, 300}

SystemCounters == {0, 1000, 1200}

OnlineCpus == {1, 2}

MemoryUsages == {0, 500}

MemoryLimits == {0, 1000}

\* The snapshots: cpu_stats and precpu_stats (total_usage, system_cpu_usage),
\* memory_stats (usage, limit), and online_cpus, which a runtime may leave out.
Snapshots ==
    LET counters == [cur_total : CpuCounters, prev_total : CpuCounters,
                     cur_system : SystemCounters, prev_system : SystemCounters,
                     usage : MemoryUsages, limit : MemoryLimits]
    IN  counters \cup
        {[f \in DOMAIN c \cup {"online_cpus"} |->
             IF f = "online_cpus" THEN n ELSE c[f]] :
                c \in counters, n \in OnlineCpus}

\* The formula without the guard on cpu_delta.
cpu_percent_unguarded(cpu_delta, system_delta, num_cpus) ==
    IF system_delta > 0
    THEN [num |-> cpu_delta * num_cpus * 100, den |-> system_delta]
    ELSE fraction(0)

\* The quotient upside down.
cpu_percent_inverted(cpu_delta, system_delta, num_cpus) ==
    IF system_delta > 0 /\ cpu_delta > 0
    THEN [num |-> system_delta * num_cpus * 100, den |-> cpu_delta]
    ELSE fraction(0)

\* cpu_percent of get_container_stats_formatted and of _parse_stream_stats:
\* (cpu_delta / system_delta) * num_cpus * 100.0, or 0.0.
cpu_percent(cpu_delta, system_delta, num_cpus) ==
    IF system_delta > 0 /\ cpu_delta > 0
    THEN [num |-> cpu_delta * num_cpus * 100, den |-> system_delta]
    ELSE fraction(0)

\* The CPU part of both parsers: the deltas, num_cpus, cpu_percent.
cpu_of(stats_data) ==
    LET cpu_delta == stats_data.cur_total - stats_data.prev_total
        system_delta == stats_data.cur_system - stats_data.prev_system
        num_cpus == IF "online_cpus" \in DOMAIN stats_data
                    THEN stats_data.online_cpus ELSE 1
    IN  cpu_percent(cpu_delta, system_delta, num_cpus)

\* DockerService.get_container_stats_formatted after the snapshot was read:
\* percentages in hundredths (round(x, 2)); (memory_usage / memory_limit)
\* raises ZeroDivisionError for a limit of 0, which `except Exception` turns
\* into an error result.
get_container_stats_formatted(stats_data) ==
    IF stats_data.limit = 0
    THEN [error |-> "Error parsing stats: division by zero"]
    ELSE [cpu_usage |-> round_2(cpu_of(stats_data)),
          memory_usage |-> stats_data.usage,
          memory_limit |-> stats_data.limit,
          memory_percent |->
              round_2([num |-> stats_data.usage * 100,
                       den |-> stats_data.limit])]

\* DockerService._parse_stream_stats: the same, without memory_limit.
_parse_stream_stats(stats_data) ==
    IF stats_data.limit = 0
    THEN [error |-> "Error parsing stats"]
    ELSE [cpu_usage |-> round_2(cpu_of(stats_data)),
          memory_usage |-> stats_data.usage,
          memory_percent |->
              round_2([num |-> stats_data.usage * 100,
                       den |-> stats_data.limit])]

\* A snapshot has been read and is not parsed yet.
Read(stats_data) == [op |-> "read", stats_data |-> stats_data]

\* The snapshot at hand.
statsData == parsed.stats_data

\* The collector is idle; a snapshot has been read from the runtime.
SnapshotInit ==
    /\ CollectorInit
    /\ HistIdle
    /\ WebIdle
    /\ \E stats_data \in Snapshots : parsed = Read(stats_data)

\* StatsService.collect_and_store_container_stats of a container that has a
\* Container row: the snapshot is formatted; an error result stores nothing,
\* any other result is stored as the sample of the tick.  cpu_percent is the
\* local variable of the parser.
CollectSample ==
    /\ parsed.op = "read"
    /\ LET container_stats == get_container_stats_formatted(statsData)
       IN  parsed' = [op |-> "collect",
                      stats_data |-> statsData,
                      cpu_percent |-> cpu_of(statsData),
                      stats |-> container_stats,
                      stored |-> "error" \notin DOMAIN container_stats]
    /\ UNCHANGED <<collVars, histVars, webVars>>

\* One frame of the stats stream is parsed and sent (the WebSocket).
StreamSample ==
    /\ parsed.op = "read"
    /\ parsed' = [op |-> "stream",
                  stats_data |-> statsData,
                  cpu_percent |-> cpu_of(statsData),
                  stats |-> _parse_stream_stats(statsData),
                  stored |-> FALSE]
    /\ UNCHANGED <<collVars, histVars, webVars>>

\* The next snapshot is read.
NextSnapshot ==
    /\ parsed.op \in {"collect", "stream"}
    /\ \E stats_data \in Snapshots : parsed' = Read(stats_data)
    /\ UNCHANGED <<collVars, histVars, webVars>>

SnapshotNext == CollectSample \/ StreamSample \/ NextSnapshot

SnapshotSpec == SnapshotInit /\ [][SnapshotNext]_vars

\* ------------------------------------------------------------- the routes
\* The period strings of the requests: the supported ones and others.
RequestPeriods == PeriodNames \cup {"2h", "1H"}

\* The retention_days of the requests to POST /stats/prune.
RequestRetentions == {-1, 0, 1, 30, 366}

\* The ages of the samples seeded for the requests, seconds.
RequestAges == {0, 3600, 7200, 2592060}

\* A Query parameter that accepts every string.
pattern_any(period) == TRUE

\* `Query(.., pattern="^(1h|6h|24h|7d|30d)$")`.
pattern(period) == period \in PeriodNames

\* `Query(30, ge=1, le=365)`.
ge_le(retention_days) == retention_days >= 1 /\ retention_days <= 365

\* The answer of FastAPI to a request whose parameters fail validation: the
\* route's function is not called.
RequestValidationError(route, period, retention_days) ==
    [op |-> "response", route |-> route, period |-> period,
     retention_days |-> retention_days, status_code |-> 422, body |-> <<>>]

\* The answer of a route whose function returned.
Ok(route, period, retention_days, body) ==
    [op |-> "response", route |-> route, period |-> period,
     retention_days |-> retention_days, status_code |-> 200, body |-> body]

\* The body of GET /stats/system/history: the window is computed once more
\* from the period, the rows are the service's.
history_body(period, aggregate, stats) ==
    [stats |-> stats, period |-> period,
     start_time |-> hNow - periods(period), end_time |-> hNow,
     aggregate |-> aggregate]

\* The body of GET /containers/{container_id}/stats/history.
container_history_body(container_id, period, aggregate, stats) ==
    [container_id |-> container_id, container_name |-> "None",
     stats |-> stats, period |-> period,
     start_time |-> hNow - periods(period), end_time |-> hNow,
     aggregate |-> aggregate]

\* GET /stats/system/history.
RouteSystemHistory(period, aggregate) ==
    /\ hTable = "system_stats"
    /\ hResult = NoResult
    /\ hResult' =
         IF pattern(period)
         THEN Ok("system_history", period, 0,
                 history_body(period, aggregate,
                              get_system_stats_history(period, aggregate)))
         ELSE RequestValidationError("system_history", period, 0)
    /\ UNCHANGED <<collVars, dockerVars, webVars, hNow, hTz, hTable, hStore>>

\* GET /containers/{container_id}/stats/history.
RouteContainerHistory(container_id, period, aggregate) ==
    /\ hTable = "container_stats"
    /\ hResult = NoResult
    /\ hResult' =
         IF pattern(period)
         THEN Ok("container_history", period, 0,
                 container_history_body(container_id, period, aggregate,
                     get_container_stats_history(container_id, period,
                                                 aggregate)))
         ELSE RequestValidationError("container_history", period, 0)
    /\ UNCHANGED <<collVars, dockerVars, webVars, hNow, hTz, hTable, hStore>>

\* POST /stats/prune.
RoutePrune(retention_days) ==
    /\ hResult = NoResult
    /\ IF ge_le(retention_days)
       THEN /\ hResult' = Ok("prune", "", retention_days,
                             prune_old_stats(retention_days).result)
            /\ hStore' = prune_old_stats(retention_days).store
       ELSE /\ hResult' = RequestValidationError("prune", "", retention_days)
            /\ hStore' = hStore
    /\ UNCHANGED <<collVars, dockerVars, webVars, hNow, hTz, hTable>>

\* GET /stats/compare; the metric is one the route accepts.
RouteCompare(container_ids, metric, period) ==
    /\ hTable = "container_stats"
    /\ hResult = NoResult
    /\ hResult' =
         IF pattern(period)
         THEN Ok("compare", period, 0,
                 compare_containers(container_ids, metric, period))
         ELSE RequestValidationError("compare", period, 0)
    /\ UNCHANGED <<collVars, dockerVars, webVars, hNow, hTz, hTable, hStore>>

\* GET /stats/trends; the metric is one the route accepts.
RouteTrends(metric, period) ==
    /\ hTable = "system_stats"
    /\ hResult = NoResult
    /\ hResult' =
         IF pattern(period)
         THEN Ok("trends", period, 0, get_resource_trends(metric, period))
         ELSE RequestValidationError("trends", period, 0)
    /\ UNCHANGED <<collVars, dockerVars, webVars, hNow, hTz, hTable, hStore>>

\* What docker_service.list_all_containers() returned to export_stats: no
\* container, or at least one.
Listings == {"none", "some"}

\* The formats GET /stats/export accepts.
ExportFormats == {"json", "csv"}

\* The answer to a request whose function raised: the exception reaches the
\* server, which answers 500.
InternalServerError(route, period) ==
    [op |-> "response", route |-> route, period |-> period,
     retention_days |-> 0, status_code |-> 500, body |-> <<>>]

\* StatsService._export_to_csv of the system history: the header line and
\* one line per item, each the list of its fields in the order of the
\* header (the joins by "," and by "\n" are not expanded).
_export_to_csv(data) ==
    IF data = <<>> THEN [csv |-> <<>>, error |-> "No data to export"]
    ELSE [format |-> "csv",
          csv |-> <<<<"timestamp", "cpu_usage", "memory_usage", "disk_usage",
                      "network_rx", "network_tx">>>>
                  \o [i \in DOMAIN data |->
                        <<data[i].timestamp, data[i].cpu_usage,
                          data[i].memory_usage, data[i].disk_usage,
                          data[i].network_rx, data[i].network_tx>>]]

\* StatsService.export_stats. For the containers it asks the history of
\* container.get("id"), which list_all_containers sets to 0 for every
\* container: one entry, keyed 0, the history of no Container row. The csv
\* of that dict iterates its keys and raises on the first (`raised`).
export_stats(stats_type, period, format, listing) ==
    LET stats ==
            IF stats_type = "system"
            THEN get_system_stats_history(period, FALSE)
            ELSE IF listing = "none" THEN <<>>
            ELSE <<[container_id |-> 0,
                    stats |-> get_container_stats_history(0, period, FALSE)]>>
    IN  IF format = "csv"
        THEN IF stats_type = "system" \/ stats = <<>>
             THEN [raised |-> FALSE, value |-> _export_to_csv(stats)]
             ELSE [raised |-> TRUE, value |-> <<>>]
        ELSE [raised |-> FALSE,
              value |-> [format |-> format, stats_type |-> stats_type,
                         period |-> period, exported_at |-> hNow,
                         data |-> stats]]

\* GET /stats/top-consumers; the metric and the limit are ones the route
\* accepts.
RouteTopConsumers(metric, limit, period) ==
    /\ hTable = "container_stats"
    /\ hResult = NoResult
    /\ \E scan \in StorageOrders(ContainerTable) :
          hResult' =
            IF pattern(period)
            THEN Ok("top_consumers", period, 0,
                    [consumers |-> get_top_consumers(metric, limit, period,
                                                     scan),
                     metric |-> metric, limit |-> limit])
            ELSE RequestValidationError("top_consumers", period, 0)
    /\ UNCHANGED <<collVars, dockerVars, webVars, hNow, hTz, hTable, hStore>>

\* GET /stats/export; the stats_type and the format are ones the route
\* accepts.
RouteExport(stats_type, period, format, listing) ==
    /\ hTable = (IF stats_type = "system" THEN "system_stats"
                 ELSE "container_stats")
    /\ hResult = NoResult
    /\ hResult' =
         IF pattern(period)
         THEN LET export == export_stats(stats_type, period, format, listing)
              IN  IF export.raised
                  THEN InternalServerError("export", period)
                  ELSE Ok("export", period, 0, export.value)
         ELSE RequestValidationError("export", period, 0)
    /\ UNCHANGED <<collVars, dockerVars, webVars, hNow, hTz, hTable, hStore>>

\* ------------------------------------------------------------- prune, by step
\* prune_old_stats statement by statement (each `await self.db.execute` and
\* the commit is a step), called by concurrent requests, each with a session
\* of its own, while the collector writes.  A SELECT reads what is committed;
\* a DELETE opens the write transaction of its session, which the commit
\* ends; SQLite admits one write transaction at a time.
PruneCallers == {1, 2}

\* The ages of the samples stored before the calls, seconds.
PruneAges == {0, 86400, 86460, 172800}

\* A call that has not begun.
IdleCall == [pc |-> "idle", retention_days |-> 0, cutoff_date |-> 0,
             system_deleted |-> 0, container_deleted |-> 0, deleted |-> {}]

\* The calls of prune_old_stats: where each is, its cutoff, its two counts,
\* the rows its transaction has deleted and not committed.
calls ==
    IF hResult.op = "prunes" THEN hResult.calls
    ELSE [i \in PruneCallers |-> IdleCall]

\* A call between its first statement and its return.
InPrune(i) ==
    calls[i].pc \in {"delete_system", "count_container", "delete_container",
                     "commit"}

\* The session of call j holds the write transaction: it has executed a
\* DELETE and not committed.
Writing(j) == calls[j].pc \in {"count_container", "delete_container", "commit"}

\* Another session holds the write transaction.
WriteLocked(i) == \E j \in PruneCallers \ {i} : Writing(j)

\* Lines 738-745: the cutoff and the count of the old system rows.
PruneCountSystem(i, retention_days) ==
    LET cutoff_date == hNow - retention_days * 86400 IN
    /\ calls[i].pc = "idle"
    /\ hResult' = [op |-> "prunes", calls |->
          [calls EXCEPT ![i] =
              [IdleCall EXCEPT !.pc = "delete_system",
                  !.retention_days = retention_days,
                  !.cutoff_date = cutoff_date,
                  !.system_deleted =
                      Cardinality({s \in SystemTable :
                                      Expired(s.timestamp, cutoff_date)})]]]
    /\ UNCHANGED <<collVars, dockerVars, webVars, hNow, hTz, hTable, hStore>>

\* Lines 747-751: the DELETE of the old system rows.
PruneDeleteSystem(i) ==
    /\ calls[i].pc = "delete_system"
    /\ ~WriteLocked(i)
    /\ hResult' = [op |-> "prunes", calls |->
          [calls EXCEPT ![i].pc = "count_container",
              ![i].deleted = {s \in SystemTable :
                                 Expired(s.timestamp, calls[i].cutoff_date)}]]
    /\ UNCHANGED <<collVars, dockerVars, webVars, hNow, hTz, hTable, hStore>>

\* Lines 753-758: the count of the old container rows.
PruneCountContainer(i) ==
    /\ calls[i].pc = "count_container"
    /\ hResult' = [op |-> "prunes", calls |->
          [calls EXCEPT ![i].pc = "delete_container",
              ![i].container_deleted =
                  Cardinality({s \in ContainerTable :
                                  Expired(s.timestamp, calls[i].cutoff_date)})]]
    /\ UNCHANGED <<collVars, dockerVars, webVars, hNow, hTz, hTable, hStore>>

\* Lines 760-764: the DELETE of the old container rows.
PruneDeleteContainer(i) ==
    /\ calls[i].pc = "delete_container"
    /\ hResult' = [op |-> "prunes", calls |->
          [calls EXCEPT ![i].pc = "commit",
              ![i].deleted = @ \cup
                  {s \in ContainerTable :
                      Expired(s.timestamp, calls[i].cutoff_date)}]]
    /\ UNCHANGED <<collVars, dockerVars, webVars, hNow, hTz, hTable, hStore>>

\* Lines 766-772: the commit and the return.
PruneCommit(i) ==
    /\ calls[i].pc = "commit"
    /\ hStore' = hStore \ calls[i].deleted
    /\ hResult' = [op |-> "prunes", calls |->
          [calls EXCEPT ![i].pc = "returned", ![i].deleted = {}]]
    /\ UNCHANGED <<collVars, dockerVars, webVars, hNow, hTz, hTable>>

\* A statement or the commit raises: the exception leaves prune_old_stats,
\* the session is closed and its transaction rolled back.
PruneFails(i) ==
    /\ InPrune(i)
    /\ hResult' = [op |-> "prunes", calls |->
          [calls EXCEPT ![i].pc = "failed", ![i].deleted = {}]]
    /\ UNCHANGED <<collVars, dockerVars, webVars, hNow, hTz, hTable, hStore>>

\* A collector that keeps one row per table: the new sample replaces the
\* stored ones.
CollectorInsert_upsert(reading) ==
    /\ \A j \in PruneCallers : ~Writing(j)
    /\ Cardinality(hStore) < MaxSamples
    /\ \A s \in hStore : s.timestamp # hNow
    /\ hStore' =
          {IF hTable = "system_stats" THEN SystemStats(hNow, reading)
           ELSE ContainerStats(DbId(1), hNow, reading)}
    /\ UNCHANGED <<collVars, dockerVars, webVars, hNow, hTz, hTable, hResult>>

\* The collector commits a sample taken now: db.add of a new row and commit,
\* at any moment between the requests and between two statements of the
\* calls of prune (it waits while a session holds the write transaction).
CollectorInsert(reading) ==
    /\ \A j \in PruneCallers : ~Writing(j)
    /\ Cardinality(hStore) < MaxSamples
    /\ \A s \in hStore : s.timestamp # hNow
    /\ hStore' = hStore \cup
          {IF hTable = "system_stats" THEN SystemStats(hNow, reading)
           ELSE ContainerStats(DbId(1), hNow, reading)}
    /\ UNCHANGED <<collVars, dockerVars, webVars, hNow, hTz, hTable, hResult>>

PruneNext ==
    \/ \E age \in PruneAges : \E reading \in SystemReadings :
          SeedSystem(age, reading)
    \/ \E age \in PruneAges : \E reading \in ContainerReadings :
          SeedContainer(1, age, reading)
    \/ \E i \in PruneCallers : \E retention_days \in {1, 2} :
          PruneCountSystem(i, retention_days)
    \/ \E i \in PruneCallers : PruneDeleteSystem(i)
    \/ \E i \in PruneCallers : PruneCountContainer(i)
    \/ \E i \in PruneCallers : PruneDeleteContainer(i)
    \/ \E i \in PruneCallers : PruneCommit(i)
    \/ \E i \in PruneCallers : PruneFails(i)
    \/ \E reading \in {r \in SystemReadings : r.cpu_usage = 10} :
          CollectorInsert(reading)

PruneSpec == HistInit /\ [][PruneNext]_vars

\* The requests of the statistics routes, the collector committing samples
\* between them.
RouteNext ==
    \/ \E age \in RequestAges : \E reading \in SystemReadings :
          SeedSystem(age, reading)
    \/ \E age \in RequestAges : \E reading \in ContainerReadings :
          SeedContainer(1, age, reading)
    \/ \E period \in RequestPeriods : \E aggregate \in BOOLEAN :
          RouteSystemHistory(period, aggregate)
    \/ \E period \in RequestPeriods : \E aggregate \in BOOLEAN :
          \E c \in {1, MaxContainers} :
              RouteContainerHistory(c, period, aggregate)
    \/ \E container_ids \in CompareIds : \E period \in RequestPeriods :
          RouteCompare(container_ids, "cpu", period)
    \/ \E metric \in TrendMetrics : \E period \in RequestPeriods :
          RouteTrends(metric, period)
    \/ \E period \in RequestPeriods :
          RouteTopConsumers("cpu", 1, period)
    \/ \E stats_type \in {"system", "container"} :
          \E period \in RequestPeriods : \E format \in ExportFormats :
              \E listing \in Listings :
                  RouteExport(stats_type, period, format, listing)
    \/ \E retention_days \in RequestRetentions : RoutePrune(retention_days)
    \/ \E reading \in {r \in SystemReadings : r.cpu_usage = 10} :
          CollectorInsert(reading)
    \/ Respond

RouteSpec == HistInit /\ [][RouteNext]_vars

\* ------------------------------------------------------------- rate limit
\* The clock of the server advances in steps of 20 seconds, up to MaxClock
\* steps; the middleware is asked MaxRequests times.
MaxClock == 5

MaxRequests == 5

\* The instants of the clock.
Instants == {20 * k : k \in 0..MaxClock}

\* request.client.host of the requests; "unknown" when request.client is
\* None.
ClientIps == {"192.168.1.1", "unknown"}

\* RateLimitMiddleware(app, max_requests=2, window_seconds=60).
max_requests == 2

window_seconds == 60

\* A limit that lets a request pass when max_requests are recorded.
Limited_above(recorded) == Len(recorded) > max_requests

\* `len(RATE_LIMIT_STORE[client_ip]) >= self.max_requests`.
Limited(recorded) == Len(recorded) >= max_requests

\* The list comprehension: the recorded times still in the window.
InWindowTimes(times, current_time) ==
    SelectSeq(times, LAMBDA t : t > current_time - window_seconds)

\* RATE_LIMIT_STORE[client_ip], [] when the ip is not in the dict.
Recorded(client_ip) ==
    IF client_ip \in DOMAIN RATE_LIMIT_STORE THEN RATE_LIMIT_STORE[client_ip]
    ELSE <<>>

\* The dict with `times` under client_ip.
Stored(client_ip, times) ==
    [ip \in DOMAIN RATE_LIMIT_STORE \cup {client_ip} |->
        IF ip = client_ip THEN times ELSE RATE_LIMIT_STORE[ip]]

\* time.time() advances.
RateTick ==
    /\ wNow + 20 <= 20 * MaxClock
    /\ wNow' = wNow + 20
    /\ UNCHANGED <<collVars, histVars, dockerVars, rateVars, authVars>>

\* RateLimitMiddleware.dispatch, up to the return of call_next: there is no
\* await before the append, so the reading and the writing of the store are
\* one step. The application answers 200.
dispatch(client_ip) ==
    LET current_time == wNow
        recorded == InWindowTimes(Recorded(client_ip), current_time)
    IN  /\ Len(dispatched) < MaxRequests
        /\ IF Limited(recorded)
           THEN /\ RATE_LIMIT_STORE' = Stored(client_ip, recorded)
                /\ dispatched' = Append(dispatched,
                      [client_ip |-> client_ip, time |-> current_time,
                       status_code |-> 429, call_next |-> FALSE])
           ELSE /\ RATE_LIMIT_STORE' =
                      Stored(client_ip, Append(recorded, current_time))
                /\ dispatched' = Append(dispatched,
                      [client_ip |-> client_ip, time |-> current_time,
                       status_code |-> 200, call_next |-> TRUE])
        /\ UNCHANGED <<collVars, histVars, dockerVars, wNow, authVars>>

RateNext ==
    \/ RateTick
    \/ \E client_ip \in ClientIps : dispatch(client_ip)

RateSpec == Init /\ [][RateNext]_vars

\* ------------------------------------------------------------- tokens
\* The clock of the token calls advances in steps of half an hour, the life
\* of an access token, up to MaxAuthClock steps.
MaxAuthClock == 2

\* The concurrent callers of the authentication routes.
AuthCallers == {1, 2}

\* The usernames of table users; every user is active.
Users == {"admin"}

\* settings.ACCESS_TOKEN_EXPIRE_MINUTES * 60, seconds.
ACCESS_TOKEN_EXPIRE == 1800

\* timedelta(days=settings.REFRESH_TOKEN_EXPIRE_DAYS), seconds.
REFRESH_TOKEN_EXPIRE == 604800

\* jwt.encode of a payload: the token is the payload under the signature of
\* SECRET_KEY, so two payloads that are equal are one token.
create_access_token(sub) ==
    [signed |-> TRUE, sub |-> sub, type |-> "access",
     exp |-> wNow + ACCESS_TOKEN_EXPIRE, iat |-> wNow]

create_refresh_token(sub) ==
    [signed |-> TRUE, sub |-> sub, type |-> "refresh",
     exp |-> wNow + REFRESH_TOKEN_EXPIRE, iat |-> wNow]

\* create_tokens_for_user.
create_tokens_for_user(sub) ==
    {create_access_token(sub), create_refresh_token(sub)}

\* A token that was not signed with SECRET_KEY.
Forged ==
    [signed |-> FALSE, sub |-> "admin", type |-> "refresh",
     exp |-> REFRESH_TOKEN_EXPIRE, iat |-> 0]

\* jwt.decode raises JWTError: the signature is wrong or exp is past.
JWTError(token) == ~token.signed \/ token.exp < wNow

\* TokenBlacklist.is_blacklisted.
is_blacklisted(token) == token \in TOKEN_BLACKLIST

\* TokenBlacklist._get_expiry: exp of the payload, float('inf') when the
\* token does not decode.
_get_expiry(token) ==
    IF JWTError(token) THEN [inf |-> TRUE, exp |-> 0]
    ELSE [inf |-> FALSE, exp |-> token.exp]

\* TokenBlacklist.remove_expired: what is left of the blacklist.
remove_expired(expiry_threshold) ==
    LET current_time == wNow
        expired == {t \in TOKEN_BLACKLIST :
                       /\ ~_get_expiry(t).inf
                       /\ _get_expiry(t).exp < current_time - expiry_threshold}
    IN  TOKEN_BLACKLIST \ expired

\* No call of this caller is in progress or answered.
IdleAuth ==
    [pc |-> "idle", op |-> "none", token |-> Forged, status_code |-> 0]

\* A call answered with an HTTPException or with its return.
Answered(op, token, status_code) ==
    [pc |-> "done", op |-> op, token |-> token, status_code |-> status_code]

\* The status of get_current_user(token): 401 for a blacklisted token, for one
\* that does not decode, for one that is not an access token and for an
\* unknown user; the user otherwise (every user is active).
get_current_user(token) ==
    IF is_blacklisted(token) THEN 401
    ELSE IF JWTError(token) THEN 401
    ELSE IF token.type # "access" THEN 401
    ELSE IF token.sub \notin Users THEN 401
    ELSE 200

\* The tokens a client can present: the ones issued, and a forged one.
Presented == issued \cup {Forged}

AuthInit ==
    /\ CollectorInit
    /\ HistIdle
    /\ DockerIdle
    /\ RateIdle
    /\ TOKEN_BLACKLIST = {}
    /\ issued = {}
    /\ authCalls = [i \in AuthCallers |-> IdleAuth]
    /\ exchanged = <<>>

\* datetime.utcnow() advances.
AuthTick ==
    /\ wNow + ACCESS_TOKEN_EXPIRE <= ACCESS_TOKEN_EXPIRE * MaxAuthClock
    /\ wNow' = wNow + ACCESS_TOKEN_EXPIRE
    /\ UNCHANGED <<collVars, histVars, dockerVars, rateVars, authVars>>

\* POST /auth/login of a user with the right password.
login(sub) ==
    /\ issued' = issued \cup create_tokens_for_user(sub)
    /\ UNCHANGED <<collVars, histVars, dockerVars, wNow, rateVars,
                   TOKEN_BLACKLIST, authCalls, exchanged>>

\* A route that depends on get_current_user is called with `token`.
CurrentUser(i, token) ==
    /\ authCalls[i].pc = "idle"
    /\ authCalls' = [authCalls EXCEPT
          ![i] = Answered("get_current_user", token, get_current_user(token))]
    /\ UNCHANGED <<collVars, histVars, dockerVars, wNow, rateVars,
                   TOKEN_BLACKLIST, issued, exchanged>>

\* POST /auth/logout with `token` as the bearer: the dependency
\* get_current_user, then blacklist_token of the token of the header.
logout(i, token) ==
    /\ authCalls[i].pc = "idle"
    /\ authCalls' = [authCalls EXCEPT
          ![i] = Answered("logout", token, get_current_user(token))]
    /\ TOKEN_BLACKLIST' =
          IF get_current_user(token) = 200
          THEN TOKEN_BLACKLIST \cup {token} ELSE TOKEN_BLACKLIST
    /\ UNCHANGED <<collVars, histVars, dockerVars, wNow, rateVars, issued,
                   exchanged>>

\* get_token_from_refresh, up to `await db.execute`: the blacklist, the
\* decoding and the type are tested.
RefreshBegin(i, refresh_token) ==
    /\ authCalls[i].pc = "idle"
    /\ authCalls' = [authCalls EXCEPT ![i] =
          IF is_blacklisted(refresh_token)
          THEN Answered("get_token_from_refresh", refresh_token, 401)
          ELSE IF JWTError(refresh_token) \/ refresh_token.type # "refresh"
          THEN Answered("get_token_from_refresh", refresh_token, 401)
          ELSE [pc |-> "execute", op |-> "get_token_from_refresh",
                token |-> refresh_token, status_code |-> 0]]
    /\ UNCHANGED <<collVars, histVars, dockerVars, wNow, rateVars,
                   TOKEN_BLACKLIST, issued, exchanged>>

\* get_token_from_refresh, after the SELECT of the user: the token is
\* blacklisted and the new tokens are created.
RefreshEnd(i) ==
    /\ authCalls[i].pc = "execute"
    /\ LET refresh_token == authCalls[i].token
       IN  IF refresh_token.sub \notin Users
           THEN /\ authCalls' = [authCalls EXCEPT ![i] =
                      Answered("get_token_from_refresh", refresh_token, 401)]
                /\ UNCHANGED <<TOKEN_BLACKLIST, issued, exchanged>>
           ELSE /\ TOKEN_BLACKLIST' = TOKEN_BLACKLIST \cup {refresh_token}
                /\ issued' =
                      issued \cup create_tokens_for_user(refresh_token.sub)
                /\ exchanged' = Append(exchanged, refresh_token)
                /\ authCalls' = [authCalls EXCEPT ![i] =
                      Answered("get_token_from_refresh", refresh_token, 200)]
    /\ UNCHANGED <<collVars, histVars, dockerVars, wNow, rateVars>>

\* token_blacklist.remove_expired(expiry_threshold).
RemoveExpired(expiry_threshold) ==
    /\ TOKEN_BLACKLIST' = remove_expired(expiry_threshold)
    /\ UNCHANGED <<collVars, histVars, dockerVars, wNow, rateVars, issued,
                   authCalls, exchanged>>

\* The answer has been sent: the caller may call again.
AuthRespond(i) ==
    /\ authCalls[i].pc = "done"
    /\ authCalls' = [authCalls EXCEPT ![i] = IdleAuth]
    /\ UNCHANGED <<collVars, histVars, dockerVars, wNow, rateVars,
                   TOKEN_BLACKLIST, issued, exchanged>>

AuthNext ==
    \/ AuthTick
    \/ \E sub \in Users : login(sub)
    \/ \E i \in AuthCallers : \E token \in Presented : CurrentUser(i, token)
    \/ \E i \in AuthCallers : \E token \in Presented : logout(i, token)
    \/ \E i \in AuthCallers : \E refresh_token \in Presented :
          RefreshBegin(i, refresh_token)
    \/ \E i \in AuthCallers : RefreshEnd(i)
    \/ \E expiry_threshold \in {0, 3600} : RemoveExpired(expiry_threshold)
    \/ \E i \in AuthCallers : AuthRespond(i)

AuthSpec == AuthInit /\ [][AuthNext]_vars

\* ------------------------------------------------------------- readers
\* What a reader's SELECT returns of tick k: the committed rows.
TickSystemRows(k) == {r \in BagToSet(systemStats) : r.tick = k}

TickContainerRows(k) == {r \in BagToSet(containerStats) : r.tick = k}

Visible(k) == <<TickSystemRows(k), TickContainerRows(k)>>

\* The ways a tick fails.
FailedOutcomes == {"host_failed", "list_failed", "sample_failed", "commit_failed"}

\* ------------------------------------------------------------- C1
\* C1: when the tick of a task ends and the sampling of an enumerated
\* container failed in it (an error result earlier in the tick, or the
\* exception that ends it now), the host row of the tick and the row of every
\* other enumerated container that has a Container row are in the store.
C1_FailureIsolated ==
    [][\A t \in TaskIds :
         LET k == tasks[t].tick
             raised == tasks'[t].outcome = "sample_failed"
             failedNow == tasks[t].failed \cup
                          (IF raised THEN {Head(tasks[t].todo)} ELSE {})
         IN  ( /\ Collecting(t)
               /\ tasks'[t].pc = "sleep"
               /\ tasks'[t].outcome \in {"committed", "sample_failed"}
               /\ failedNow # {} )
             => /\ (\E r \in BagToSet(systemStats') : r.tick = k)
                /\ \A c \in tasks[t].enum \ failedNow :
                      HasRow(c) => \E r \in BagToSet(containerStats') :
                                      r.tick = k /\ r.container_id = DbId(c)
      ]_vars

\* ------------------------------------------------------------- C2
\* C2: the rows of a tick become visible to readers in one single commit:
\* once some row of tick k is visible, the visible rows of k never change.
C2_TickVisibleAtOnce ==
    [][\A k \in TickIds :
         Visible(k) # <<{}, {}>> => Visible(k)' = Visible(k)]_vars

\* ------------------------------------------------------------- C3
\* C3: a tick whose host sampling failed has still asked the runtime for the
\* running containers.
C3_HostFailureKeepsTick ==
    \A t \in TaskIds :
        (tasks[t].pc = "sleep" /\ tasks[t].outcome = "host_failed")
            => tasks[t].listed

C5_NoTornTick ==
    [][\A t \in TaskIds : \A k \in TickIds :
         (tasks[t].pc = "closing" /\ tasks[t].tick = k /\ tasks'[t].pc = "done") =>
            \/ Visible(k)' = <<{}, {}>>
            \/ /\ (\E r \in BagToSet(systemStats') : r.tick = k)
               /\ \A c \in tasks[t].enum \ tasks[t].failed :
                     HasRow(c) => \E r \in BagToSet(containerStats') :
                                      r.tick = k /\ r.container_id = DbId(c)
      ]_vars

\* ------------------------------------------------------------- C6
\* C6: a tick leaves its body only into the sleep of one full interval (or, on
\* cancellation, into the closing of its session); a tick whose host sampling
\* fails sleeps likewise; a sleeping task begins no tick before its interval
\* has elapsed; a task ends only on cancellation or when the collector is no
\* longer running; and the task of a running collector (self._task) that
\* sleeps after a failed tick begins a next tick, unless the collector is
\* stopped meanwhile (stated for the ticks that have a next one within
\* MaxTicks).
C6_LoopSurvivesFailure ==
    /\ [][\A t \in TaskIds :
            /\ (Collecting(t) /\ tasks'[t].pc \notin CollectingPcs) =>
                  \/ tasks[t].cancel /\ tasks'[t].pc = "closing"
                  \/ /\ tasks'[t].pc = "sleep"
                     /\ tasks'[t].wake = now + interval
            /\ (tasks'[t].tick > tasks[t].tick /\ tasks'[t].pc \notin CollectingPcs) =>
                  /\ tasks'[t].pc = "sleep"
                  /\ tasks'[t].outcome = "host_failed"
                  /\ tasks'[t].wake = now + interval
            /\ (tasks[t].pc = "sleep" /\ tasks'[t].tick > tasks[t].tick) =>
                  now >= tasks[t].wake
            /\ (tasks[t].pc # "done" /\ tasks'[t].pc = "done") =>
                  tasks[t].cancel \/ tasks[t].pc = "closing" \/ ~running
         ]_vars
    /\ \A k \in 1..(MaxTicks - 1) :
         ( /\ running
           /\ tasks[task].pc = "sleep"
           /\ tasks[task].tick = k
           /\ tasks[task].outcome \in FailedOutcomes
           /\ numTicks < MaxTicks
           /\ tasks[task].wake <= MaxTime )
         ~> (~running \/ tasks[task].tick > k)

\* C6, its case: the commit of a tick failed, the task has slept the full
\* interval and the collector is running: the next tick is due.
C6_Witness ==
    \E t \in TaskIds :
        /\ tasks[t].pc = "sleep"
        /\ tasks[t].outcome = "commit_failed"
        /\ running /\ ~tasks[t].cancel
        /\ now >= tasks[t].wake
        /\ numTicks < MaxTicks

\* ------------------------------------------------------------- C7
\* C7: while stop() awaits a sleeping task, the task is cancelled and can end
\* at once, whatever is left of its interval, and it begins no tick; once
\* stop() has returned and until start() is called, no task is alive, no tick
\* begins and no row is written.
C7_StopTakesEffect ==
    /\ []((stopPc = "await" /\ tasks[stopTask].pc = "sleep") =>
            tasks[stopTask].cancel /\ ENABLED TaskCancelled(stopTask))
    /\ []((stopPc = "idle" /\ ~running) =>
            \A t \in TaskIds : tasks[t].pc \in {"none", "done"})
    /\ [][/\ \A t \in TaskIds :
               (tasks[t].pc = "sleep" /\ tasks[t].cancel
                   /\ tasks'[t].pc # "sleep") => tasks'[t].pc = "done"
          /\ (stopPc = "idle" /\ ~running /\ ~running') =>
               UNCHANGED <<systemStats, containerStats, numTicks>>
         ]_vars

\* C7, its case: stop() was called while the task sleeps, before the interval
\* has elapsed, and awaits the task.
C7_Witness ==
    /\ stopPc = "await"
    /\ tasks[stopTask].pc = "sleep"
    /\ tasks[stopTask].outcome = "committed"
    /\ now < tasks[stopTask].wake

\* ------------------------------------------------------------- C8
\* The answered request is one for a history.
IsHistory == hResult.op \in {"system", "container"}

\* The rows of the table the answered request reads.
RequestedRows ==
    IF hResult.op = "system" THEN SystemTable
    ELSE {s \in ContainerTable :
             HasRow(hResult.container_id)
                 /\ s.container_id = DbId(hResult.container_id)}

\* The length of each period, seconds.
PeriodSeconds ==
    [p \in PeriodNames |->
        CASE p = "1h" -> 3600 [] p = "6h" -> 21600 [] p = "24h" -> 86400
          [] p = "7d" -> 604800 [] p = "30d" -> 2592000]

\* The result is in ascending order of timestamp.
Ascending(rows) ==
    \A i \in 1..(Len(rows) - 1) : rows[i].timestamp < rows[i + 1].timestamp

\* C8, as the code has it: get_system_stats_history(period, aggregate=False)
\* at time hNow returns exactly the stored system samples whose timestamp is
\* hNow minus the period or later, in ascending order of timestamp; a sample
\* taken exactly one period before the query is returned.
C8_WindowInclusive ==
    (hResult.op = "system" /\ ~hResult.aggregate) =>
        LET inside == {s \in SystemTable :
                          s.timestamp >= hNow - PeriodSeconds[hResult.period]}
        IN  /\ Range(hResult.rows) = inside
            /\ Len(hResult.rows) = Cardinality(inside)
            /\ Ascending(hResult.rows)

\* C8, as the claim has it: a sample whose timestamp is hNow minus the
\* period is outside the window and is not returned.
C8_WindowExclusive ==
    (hResult.op = "system" /\ ~hResult.aggregate) =>
        LET inside == {s \in SystemTable :
                          s.timestamp > hNow - PeriodSeconds[hResult.period]}
        IN  /\ Range(hResult.rows) = inside
            /\ Len(hResult.rows) = Cardinality(inside)
            /\ Ascending(hResult.rows)

\* C8, its case: samples one hour, 59 minutes and 0 seconds old (t=0s, 60s,
\* 3600s for a query at 3600s), period 1h, aggregate=False: three rows.
C8_Witness ==
    /\ hResult.op = "system"
    /\ ~hResult.aggregate
    /\ hResult.period = "1h"
    /\ {s.timestamp : s \in SystemTable} = {hNow - 3600, hNow - 3540, hNow}
    /\ Len(hResult.rows) = 3

\* ------------------------------------------------------------- C9
\* The width of the buckets of each period, seconds.
BucketWidth ==
    [p \in PeriodNames |->
        CASE p = "1h" -> 60 [] p = "6h" -> 300 [] p = "24h" -> 900
          [] p = "7d" -> 3600 [] p = "30d" -> 14400]

\* C9: with aggregate=true, the entries returned are the buckets
\* floor(timestamp / width) * width of the samples in the window, one entry
\* for each bucket that holds a sample, in strictly ascending order.
C9_BucketStart ==
    (IsHistory /\ hResult.aggregate) =>
        LET w == BucketWidth[hResult.period]
            inside == {s \in RequestedRows :
                          s.timestamp >= hNow - PeriodSeconds[hResult.period]}
            buckets == {(s.timestamp \div w) * w : s \in inside}
        IN  /\ {hResult.rows[i].timestamp : i \in DOMAIN hResult.rows} = buckets
            /\ Len(hResult.rows) = Cardinality(buckets)
            /\ Ascending(hResult.rows)

\* ------------------------------------------------------------- C10
\* C10: every entry of an aggregated result reports avg, max and min of every
\* gauge of its samples: of cpu_usage, memory_usage, disk_usage and load_avg
\* for the system, of cpu_usage and memory_usage for a container.
C10_GaugesAvgMaxMin ==
    (IsHistory /\ hResult.aggregate) =>
        \A i \in DOMAIN hResult.rows :
            /\ {"cpu_usage_avg", "cpu_usage_max", "cpu_usage_min",
                "memory_usage_avg", "memory_usage_max", "memory_usage_min"}
                   \subseteq DOMAIN hResult.rows[i]
            /\ hResult.op = "system" =>
                  {"disk_usage_avg", "disk_usage_max", "disk_usage_min",
                   "load_avg_1m_avg", "load_avg_1m_max", "load_avg_1m_min"}
                     \subseteq DOMAIN hResult.rows[i]

\* ------------------------------------------------------------- C11
\* The samples of the answered request that are in the window.
WindowRows ==
    {s \in RequestedRows : s.timestamp >= hNow - PeriodSeconds[hResult.period]}

\* The samples the aggregation has put in the bucket of entry e.
BucketRows(e) ==
    {s \in WindowRows :
        interval_key(s.timestamp, BucketWidth[hResult.period]) = e.timestamp}

\* The sample of a non-empty set with the latest timestamp.
Latest(rows) == CHOOSE s \in rows : \A y \in rows : y.timestamp <= s.timestamp

\* C11: every entry of an aggregated result reports, for the counters
\* network_rx and network_tx, the raw value of the sample of its bucket with
\* the latest timestamp (never a sum or an average over the bucket).
C11_CountersLatest ==
    (IsHistory /\ hResult.aggregate) =>
        \A i \in DOMAIN hResult.rows :
            LET e == hResult.rows[i]
            IN  /\ BucketRows(e) # {}
                /\ e.network_rx = Latest(BucketRows(e)).network_rx
                /\ e.network_tx = Latest(BucketRows(e)).network_tx

\* C11, its case: three host samples in one hourly bucket, stored with
\* network_rx 100, 300, 200 in the order of their timestamps: the entry
\* reports 200, which is neither the sum, the maximum nor the first.
C11_Witness ==
    /\ hResult.op = "system"
    /\ hResult.aggregate
    /\ hResult.period = "7d"
    /\ hTz = 0
    /\ {<<hNow - s.timestamp, s.network_rx>> : s \in SystemTable}
           = {<<3600, 100>>, <<3540, 300>>, <<60, 200>>}
    /\ Len(hResult.rows) = 1
    /\ hResult.rows[1].network_rx = 200

\* ------------------------------------------------------------- C12
\* C12: prune_old_stats(retention_days) at time hNow removes every stored
\* sample, of the host and of the containers, whose timestamp is earlier than
\* hNow minus retention_days, and leaves every sample at or after that cutoff
\* as it was; run again at once with the same retention, it deletes nothing.
C12_PruneBelowCutoff ==
    [][hResult'.op = "prune" =>
         LET cutoff == hNow - hResult'.retention_days * 86400
             old == {s \in hStore : s.timestamp < cutoff}
         IN  /\ hStore' = hStore \ old
             /\ hResult'.system_stats_deleted + hResult'.container_stats_deleted
                    = Cardinality(old)
             /\ ( /\ hResult.op = "prune"
                  /\ hResult.retention_days = hResult'.retention_days )
                => /\ hStore' = hStore
                   /\ hResult'.system_stats_deleted = 0
                   /\ hResult'.container_stats_deleted = 0
      ]_vars

\* C12, its case: retention of 30 days, a container sample of exactly 30 days
\* ago and one a minute older: the older one has been deleted, the one at the
\* cutoff is still stored.
C12_Witness ==
    /\ hResult.op = "prune"
    /\ hResult.retention_days = 30
    /\ hResult.container_stats_deleted = 1
    /\ {hNow - s.timestamp : s \in ContainerTable} = {2592000, 0}

\* ------------------------------------------------------------- C13
\* The value of a metric in a bucket, as a fraction: the average of the
\* gauge, the reading of the disk.
BucketValue(e, metric) ==
    CASE metric = "cpu" -> e.cpu_usage_avg
      [] metric = "memory" -> e.memory_usage_avg
      [] metric = "disk" -> [num |-> e.disk_usage, den |-> 1]

\* C13: get_resource_trends over at least two buckets returns change_percent
\* = (last - first) / first * 100 of the first and the last bucket of the
\* metric when first > 0 and 0 otherwise, and the trend is 'increasing'
\* exactly when the returned change_percent is above 5, 'decreasing' exactly
\* when it is below -5, and 'stable' otherwise.
C13_TrendFromChange ==
    ( /\ hResult.op = "trends"
      /\ hResult.metric \in {"cpu", "memory", "disk"}
      /\ Len(hResult.data) >= 2 ) =>
        LET first == BucketValue(hResult.data[1], hResult.metric)
            lst == BucketValue(hResult.data[Len(hResult.data)], hResult.metric)
            expected ==
                IF first.num > 0
                THEN round_2([num |-> (lst.num * first.den
                                          - first.num * lst.den) * 100,
                              den |-> first.num * lst.den])
                ELSE 0
        IN  /\ hResult.change_percent = expected
            /\ hResult.trend = "increasing" <=> hResult.change_percent > 500
            /\ hResult.trend = "decreasing" <=> hResult.change_percent < -500
            /\ hResult.trend = "stable" <=>
                  (hResult.change_percent >= -500
                      /\ hResult.change_percent <= 500)

\* ------------------------------------------------------------- C14
\* The stored samples of runtime container c inside the period asked for.
PeriodRows(c) ==
    {s \in ContainerTable :
        /\ s.container_id = DbId(c)
        /\ s.timestamp >= hNow - PeriodSeconds[hResult.period]}

\* The average of the metric asked for over the samples of container c in
\* the period (network: received plus sent).
MetricAverage(c) ==
    LET rows == order_by_timestamp(PeriodRows(c))
    IN  avg([i \in DOMAIN rows |->
                CASE hResult.metric = "cpu" -> rows[i].cpu_usage
                  [] hResult.metric = "memory" -> rows[i].memory_usage
                  [] hResult.metric = "network" ->
                        rows[i].network_rx + rows[i].network_tx])

\* Container a ranks before container b: a higher average, or the same
\* average and the lower identifier.
RanksBefore(a, b) ==
    \/ less(MetricAverage(b), MetricAverage(a))
    \/ /\ ~less(MetricAverage(a), MetricAverage(b))
       /\ a < b

\* C14: get_top_consumers(metric, limit, period) returns the first `limit`
\* (or all, when fewer) of the containers that have samples in the period,
\* ranked by the average of the metric over the period, descending, and by
\* ascending identifier among equal averages; the result is a function of the
\* stored samples alone, whatever the order the store returns them in.
\* (Stated for the periods 1h, 24h and 7d; the window of the others is C15's.)
C14_TopConsumersRanked ==
    (hResult.op = "top" /\ hResult.period \in {"1h", "24h", "7d"}) =>
        LET sampled == {c \in RuntimeIds : PeriodRows(c) # {}}
            listed == [i \in DOMAIN hResult.rows |-> hResult.rows[i].container_id]
        IN  /\ Len(listed) <= hResult.limit
            /\ Len(listed) = IF Cardinality(sampled) < hResult.limit
                             THEN Cardinality(sampled) ELSE hResult.limit
            /\ Range(listed) \subseteq sampled
            /\ \A i \in 1..(Len(listed) - 1) :
                  RanksBefore(listed[i], listed[i + 1])
            /\ \A c \in sampled \ Range(listed) :
                  \A i \in DOMAIN listed : RanksBefore(listed[i], c)

\* ------------------------------------------------------------- C15
\* The buckets of a set of samples, as the aggregation keys them.
BucketKeys(rows) ==
    {interval_key(s.timestamp, BucketWidth[hResult.period]) : s \in rows}

\* C15: the period asked for selects the same lookback window, hNow minus the
\* length of the period, in every operation that takes a period: the top
\* consumers are taken among the containers sampled in that window, and the
\* comparison and the trend cover the samples of that window.
C15_SamePeriodSameWindow ==
    /\ hResult.op = "top" =>
          LET sampled == {c \in RuntimeIds : PeriodRows(c) # {}}
              listed == {hResult.rows[i].container_id : i \in DOMAIN hResult.rows}
          IN  /\ listed \subseteq sampled
              /\ Cardinality(sampled) <= hResult.limit => listed = sampled
    /\ hResult.op = "compare" =>
          \A c \in DOMAIN hResult.data :
              {hResult.data[c][i].timestamp : i \in DOMAIN hResult.data[c]}
                  = BucketKeys(PeriodRows(c))
    /\ hResult.op = "trends" =>
          {hResult.data[i].timestamp : i \in DOMAIN hResult.data}
              = BucketKeys({s \in SystemTable :
                               s.timestamp >= hNow - PeriodSeconds[hResult.period]})

\* ------------------------------------------------------------- C16
\* The deltas and the CPU count of the snapshot.
CpuDelta == statsData.cur_total - statsData.prev_total

SystemDelta == statsData.cur_system - statsData.prev_system

NumCpus ==
    IF "online_cpus" \in DOMAIN statsData THEN statsData.online_cpus ELSE 1

\* Fractions with positive denominators are equal.
SameFraction(a, b) == a.num * b.den = b.num * a.den

C17_BoundedByCpus ==
    ( /\ parsed.op \in {"collect", "stream"}
      /\ statsData.cur_system > statsData.prev_system
      /\ statsData.cur_total >= statsData.prev_total ) =>
        /\ parsed.cpu_percent.num >= 0
        /\ parsed.cpu_percent.num <= NumCpus * 100 * parsed.cpu_percent.den
        /\ "cpu_usage" \in DOMAIN parsed.stats =>
              /\ parsed.stats.cpu_usage >= 0
              /\ parsed.stats.cpu_usage <= NumCpus * 10000

\* C17, as the code has it: the bound holds when, besides, the container has
\* used no more CPU time than the host counted (cpu_delta <= system_delta).
C17_BoundedWithinSystem ==
    ( /\ parsed.op \in {"collect", "stream"}
      /\ statsData.cur_system > statsData.prev_system
      /\ statsData.cur_total >= statsData.prev_total
      /\ CpuDelta <= SystemDelta ) =>
        /\ parsed.cpu_percent.num >= 0
        /\ parsed.cpu_percent.num <= NumCpus * 100 * parsed.cpu_percent.den
        /\ "cpu_usage" \in DOMAIN parsed.stats =>
              /\ parsed.stats.cpu_usage >= 0
              /\ parsed.stats.cpu_usage <= NumCpus * 10000

\* C17, its case: the container used all the CPU time the host counted, on
\* two CPUs (cpu_delta = system_delta = 200): the stream reports 200.00.
C17_Witness ==
    /\ parsed.op = "stream"
    /\ "cpu_usage" \in DOMAIN parsed.stats
    /\ CpuDelta = 200 /\ SystemDelta = 200 /\ NumCpus = 2
    /\ parsed.stats.cpu_usage = 20000

\* ------------------------------------------------------------- C18
\* C18: the memory percentage of a collected snapshot is used / limit * 100
\* when limit > 0 and 0 when limit = 0; a limit of 0 gives no error and the
\* sample of the container is stored.
C18_MemoryPercent ==
    parsed.op = "collect" =>
        /\ "error" \notin DOMAIN parsed.stats
        /\ parsed.stored
        /\ parsed.stats.memory_percent =
              IF statsData.limit > 0
              THEN round_2([num |-> statsData.usage * 100,
                            den |-> statsData.limit])
              ELSE 0

\* ------------------------------------------------------------- C19
\* C19, as the claim has it: the aggregated 7d history of a host sampled every
\* 60 seconds over the whole window (10,080 samples) has at most 168 buckets,
\* wherever the query instant lies relative to the hour boundaries.
C19_AtMost168 ==
    (hResult.op = "length" /\ hResult.period = "7d"
        /\ Cardinality(hStore) = 10080) =>
        hResult.length <= 168

\* C19, as the code has it: at most 169 buckets; the window runs from one
\* instant to the same instant seven days later and is cut by 168 hour
\* boundaries unless its first sample falls in the first minute of an hour.
C19_AtMost169 ==
    (hResult.op = "length" /\ hResult.period = "7d"
        /\ Cardinality(hStore) = 10080) =>
        /\ hResult.length <= 169
        /\ hResult.length >= 168

\* C19, its case: a query 25 minutes after the hour (UTC) over 10,080
\* samples, the first one taken at the start of the window: 169 buckets.
C19_Witness ==
    /\ hResult.op = "length"
    /\ hResult.period = "7d"
    /\ hTz = 0
    /\ hNow = 14400000 + 1500
    /\ Cardinality(hStore) = 10080
    /\ \E s \in hStore : s.timestamp = hNow - 604800
    /\ hResult.length = 169

\* ------------------------------------------------------------- C20
\* C20: with aggregate=false the history of the system and the history of a
\* container have one entry for each stored sample of the window and no
\* other: every entry carries the fields of its sample with the stored
\* values, its own timestamp included (no bucketing), no sample is missing or
\* returned twice, and the entries are in ascending order of timestamp.
C20_RawSamplesUnchanged ==
    (IsHistory /\ ~hResult.aggregate) =>
        /\ Len(hResult.rows) = Cardinality(WindowRows)
        /\ \A s \in WindowRows :
              Cardinality({i \in DOMAIN hResult.rows :
                              hResult.rows[i].timestamp = s.timestamp}) = 1
        /\ \A i \in DOMAIN hResult.rows :
              \E s \in WindowRows :
                  /\ DOMAIN hResult.rows[i] = DOMAIN s
                  /\ \A f \in DOMAIN s : hResult.rows[i][f] = s[f]
        /\ Ascending(hResult.rows)

\* C20, its case: container 1 has three samples, two of them inside the last
\* 24 hours; its raw 24h history has these two, the older one first.
C20_Witness ==
    /\ hResult.op = "container"
    /\ ~hResult.aggregate
    /\ hResult.period = "24h"
    /\ hResult.container_id = 1
    /\ {hNow - s.timestamp : s \in ContainerTable} = {604800, 86400, 60}
    /\ Len(hResult.rows) = 2
    /\ hResult.rows[1].timestamp = hNow - 86400
    /\ hResult.rows[1].network_rx # hResult.rows[1].network_tx

\* ------------------------------------------------------------- C21
\* The request just answered had invalid parameters: a period outside the
\* supported set, or a retention_days that is not positive.
InvalidRequest(response) ==
    \/ response.route # "prune" /\ response.period \notin PeriodNames
    \/ response.route = "prune" /\ response.retention_days <= 0

\* C21: a request whose period is outside the supported set, or whose
\* retention_days is not positive, is answered with a client error (status
\* 4xx) and no data, no window having been chosen for it, and leaves every
\* stored sample as it was.
C21_InvalidRejected ==
    [][(hResult' # hResult /\ hResult'.op = "response"
           /\ InvalidRequest(hResult'))
         => /\ hResult'.status_code \in 400..499
            /\ hResult'.body = <<>>
            /\ hStore' = hStore
      ]_vars

\* C21, its case: samples are stored, one of them two hours old, and a
\* request for the period "2h", or a prune with retention_days 0, has been
\* rejected.
C21_Witness ==
    /\ hResult.op = "response"
    /\ hResult.status_code = 422
    /\ \/ hResult.period = "2h"
       \/ hResult.route = "prune" /\ hResult.retention_days = 0
    /\ \E s \in hStore : s.timestamp = hNow - 7200

\* ------------------------------------------------------------- C22
\* The rows of a table that tick k wrote, with their multiplicity.
TickBag(table, k) ==
    [r \in {x \in BagToSet(table) : x.tick = k} |-> table[r]]

\* The positions of a tick after its host-sampling step
\* (collect_and_store_system_stats has returned).
AfterHostPcs == {"list", "ctr", "ctr_commit", "final_commit"}

\* C22: the step that completes the host sampling of a tick adds one row to
\* system_stats, the row of that tick; while the tick goes on, that row is its
\* only one; no tick ever has more than one row in system_stats; and the rows
\* of system_stats are never more than the ticks begun.
C22_OneSystemSamplePerTick ==
    /\ [](\A t \in TaskIds :
            tasks[t].pc \in AfterHostPcs =>
                BagCardinality(TickBag(systemStats, tasks[t].tick)) = 1)
    /\ [](\A k \in TickIds : BagCardinality(TickBag(systemStats, k)) <= 1)
    /\ [](BagCardinality(systemStats) <= numTicks)
    /\ [][\A t \in TaskIds :
            (tasks[t].pc = "host_commit" /\ tasks'[t].pc = "list") =>
                /\ BagCardinality(systemStats') = BagCardinality(systemStats) + 1
                /\ BagCardinality(TickBag(systemStats, tasks[t].tick)) = 0
         ]_vars

\* C22, its case: two ticks have completed their host sampling, the second is
\* asking for the running containers, and system_stats holds two rows.
C22_Witness ==
    /\ numTicks = 2
    /\ BagCardinality(systemStats) = 2
    /\ \E t \in TaskIds : tasks[t].pc = "list" /\ tasks[t].tick = 2

\* ------------------------------------------------------------- C23
\* The number of rows of container_stats that tick k wrote with the persisted
\* id of runtime container c.
ContainerSamples(table, k, c) ==
    BagCardinality([r \in {x \in BagToSet(table) :
                              x.tick = k /\ x.container_id = DbId(c)}
                        |-> table[r]])

\* The tick of task t ends with the commit of the session: every enumerated
\* container has been gone through.
Commits(t) ==
    /\ tasks[t].pc = "final_commit"
    /\ tasks'[t].pc = "sleep"
    /\ tasks'[t].outcome = "committed"

SameEntity(r1, r2) ==
    /\ DOMAIN r1 = DOMAIN r2
    /\ "container_id" \in DOMAIN r1 => r1.container_id = r2.container_id

SystemInRange(period) ==
    {s \in SystemTable : s.timestamp >= hNow - PeriodSeconds[period]}

ContainerInRange(c, period) ==
    {s \in ContainerTable :
        /\ HasRow(c)
        /\ s.container_id = DbId(c)
        /\ s.timestamp >= hNow - PeriodSeconds[period]}

\* C25: a history, compare or trends request with a supported period is
\* answered without error; when no stored sample is in its range, the system
\* history and the history of a container (also one without a Container row)
\* are the empty sequence, compare has the empty sequence for each such
\* container id it was asked for, and trend has no data and change_percent 0.
C25_EmptyRangeEmptyResult ==
    ( /\ hResult.op = "response"
      /\ hResult.route \in {"system_history", "container_history", "compare",
                            "trends"}
      /\ hResult.period \in PeriodNames ) =>
        LET body == hResult.body
            period == hResult.period
        IN  /\ hResult.status_code = 200
            /\ (hResult.route = "system_history" /\ SystemInRange(period) = {})
                  => body.stats = <<>>
            /\ ( /\ hResult.route = "container_history"
                 /\ ContainerInRange(body.container_id, period) = {} )
                  => body.stats = <<>>
            /\ hResult.route = "compare"
                  => /\ DOMAIN body.data = Range(body.container_ids)
                     /\ \A c \in Range(body.container_ids) :
                           ContainerInRange(c, period) = {}
                              => body.data[c] = <<>>
            /\ (hResult.route = "trends" /\ SystemInRange(period) = {})
                  => /\ body.data = <<>>
                     /\ body.change_percent = 0

\* C25, its case: samples of the first container are stored, none in the
\* last hour; a comparison over "1h" of that container and of one without a
\* Container row has been answered.
C25_Witness ==
    /\ hStore # {}
    /\ hResult.op = "response"
    /\ hResult.status_code = 200
    /\ hResult.route = "compare"
    /\ hResult.period = "1h"
    /\ hResult.body.container_ids = <<1, 2>>
    /\ ~HasRow(2)
    /\ ContainerInRange(1, "1h") = {}

\* ------------------------------------------------------------- C26
\* C26: a tick begins with its host sampling, when it has neither asked the
\* runtime for the running containers nor written or staged a container
\* sample; it asks the runtime for them only after the host sample has been
\* written; and a container is sampled only after that question, the host
\* sample being in the store.
C26_HostSampleFirst ==
    [][\A t \in TaskIds :
         LET k == tasks[t].tick
             hostWritten == BagCardinality(TickBag(systemStats, k)) = 1
         IN  /\ tasks'[t].tick > k
                => /\ ~tasks'[t].listed
                   /\ ContainerRows(tasks'[t].staged) = {}
                   /\ \A c \in RuntimeIds :
                         ContainerSamples(containerStats', tasks'[t].tick, c) = 0
             /\ (tasks'[t].listed /\ ~tasks[t].listed)
                => /\ tasks[t].pc = "list"
                   /\ tasks'[t].tick = k
                   /\ hostWritten
             /\ ( /\ tasks[t].pc = "ctr"
                  /\ \/ tasks'[t].pc # "ctr"
                     \/ tasks'[t].todo # tasks[t].todo )
                => /\ tasks[t].listed
                   /\ hostWritten
      ]_vars

\* C26, its case: a tick has written its host sample, has asked the runtime
\* and is about to sample the first container it enumerated.
C26_Witness ==
    \E t \in TaskIds :
        /\ tasks[t].pc = "ctr"
        /\ tasks[t].listed
        /\ Len(tasks[t].todo) = 2
        /\ BagCardinality(TickBag(systemStats, tasks[t].tick)) = 1
        /\ \A c \in RuntimeIds :
              ContainerSamples(containerStats, tasks[t].tick, c) = 0

\* ------------------------------------------------------------- C27
\* The stored rows of a kind older than the cutoff of call i.
OldSystem(i) == {s \in SystemTable : s.timestamp < calls[i].cutoff_date}

OldContainer(i) == {s \in ContainerTable : s.timestamp < calls[i].cutoff_date}

\* C27: while a call of prune_old_stats runs, every step leaves the rows of a
\* kind older than its cutoff all stored or all removed; a call that fails
\* removes nothing; and the call that returns has removed every such row
\* that was stored, system_stats_deleted and container_stats_deleted being
\* the numbers of rows its commit removed, also with the collector writing
\* and another call running.
C27_PruneAtomicCounted ==
    [][\A i \in PruneCallers :
         /\ (InPrune(i) /\ InPrune(i)')
               => /\ OldSystem(i)' \in {OldSystem(i), {}}
                  /\ OldContainer(i)' \in {OldContainer(i), {}}
         /\ (InPrune(i) /\ calls'[i].pc = "failed") => hStore' = hStore
         /\ (calls[i].pc = "commit" /\ calls'[i].pc = "returned")
               => /\ OldSystem(i)' = {}
                  /\ OldContainer(i)' = {}
                  /\ calls'[i].system_deleted =
                        Cardinality(SystemTable \ SystemTable')
                  /\ calls'[i].container_deleted =
                        Cardinality(ContainerTable \ ContainerTable')
      ]_vars


\* ------------------------------------------------------------- C28
\* The routes that read the samples.
ReadRoutes ==
    {"system_history", "container_history", "top_consumers", "compare",
     "trends", "export"}

\* C28: the stored samples are immutable. A request to a history,
\* top-consumers, compare, trends or export route, whatever it is answered,
\* leaves the table as it was; a step of the collector keeps every stored row
\* as it is and only adds; and a step after which a stored row is missing or
\* different is the answer of prune_old_stats.
C28_SamplesImmutable ==
    [][/\ (hResult' # hResult /\ hResult'.op = "response"
             /\ hResult'.route \in ReadRoutes)
          => hStore' = hStore
       /\ hResult' = hResult => hStore \subseteq hStore'
       /\ ~(hStore \subseteq hStore')
          => /\ hResult' # hResult
             /\ hResult'.op = "response"
             /\ hResult'.route = "prune"
             /\ hResult'.status_code = 200
             /\ hStore' \subseteq hStore
      ]_vars

\* C28, its case: an export has been answered with a sample in it, the
\* collector has committed a sample while the answer was being returned, and
\* a sample older than the exported window is still stored.
C28_Witness ==
    /\ hResult.op = "response"
    /\ hResult.route = "export"
    /\ hResult.status_code = 200
    /\ "data" \in DOMAIN hResult.body
    /\ Len(hResult.body.data) = 1
    /\ Cardinality(hStore) = 3
    /\ \E s \in hStore : s.timestamp = hNow
    /\ \E s \in hStore : s.timestamp < hNow - periods(hResult.period)


\* ------------------------------------------------------------- C29
\* The requests of client_ip that were passed to the application in the
\* window_seconds before the instant T.
PassedInWindow(client_ip, T) ==
    {i \in DOMAIN dispatched :
        /\ dispatched[i].client_ip = client_ip
        /\ dispatched[i].call_next
        /\ dispatched[i].time > T - window_seconds
        /\ dispatched[i].time <= T}

\* The times recorded for client_ip that are in the window of a request
\* arriving now, in the order recorded.
RecordedInWindow(client_ip) ==
    SelectSeq(Recorded(client_ip), LAMBDA t : t > wNow - window_seconds)

\* C29: for every client ip and every instant, at most max_requests requests
\* of that ip were passed to the application in the preceding window_seconds;
\* a request arriving when max_requests are recorded in the window is
\* answered 429, is not recorded and does not reach the application; a
\* request below the limit is recorded and passed through.
C29_RateLimited ==
    /\ [](\A client_ip \in ClientIps : \A T \in Instants :
             Cardinality(PassedInWindow(client_ip, T)) <= max_requests)
    /\ [][dispatched' # dispatched =>
            LET request == dispatched'[Len(dispatched')]
                before == RecordedInWindow(request.client_ip)
                times == RATE_LIMIT_STORE'[request.client_ip]
            IN  IF Len(before) >= max_requests
                THEN /\ request.status_code = 429
                     /\ ~request.call_next
                     /\ times = before
                ELSE /\ request.status_code = 200
                     /\ request.call_next
                     /\ times = Append(before, request.time)
        ]_vars

\* C29, its case: a client was answered 429 with max_requests requests in the
\* window, and after the window moved on a later request of that client was
\* passed through; another client was served meanwhile.
C29_Witness ==
    \E i, j \in DOMAIN dispatched :
        /\ i < j
        /\ dispatched[i].client_ip = dispatched[j].client_ip
        /\ dispatched[i].status_code = 429
        /\ dispatched[j].call_next
        /\ Cardinality(PassedInWindow(dispatched[i].client_ip,
                                      dispatched[i].time)) = max_requests
        /\ \E k \in DOMAIN dispatched :
              dispatched[k].client_ip # dispatched[i].client_ip


\* ------------------------------------------------------------- C30
\* The number of times `token` was exchanged for new tokens.
Exchanges(token) ==
    Cardinality({k \in DOMAIN exchanged : exchanged[k] = token})

\* A call with a blacklisted token is rejected with 401: a get_current_user
\* (also as the dependency of logout) or a get_token_from_refresh that begins
\* in this step with a token that is on the blacklist is answered 401 in this
\* step.
RejectedOnceBlacklisted ==
    \A i \in AuthCallers :
        ( /\ authCalls[i].pc = "idle"
          /\ authCalls'[i].pc # "idle"
          /\ authCalls'[i].token \in TOKEN_BLACKLIST )
        => /\ authCalls'[i].pc = "done"
           /\ authCalls'[i].status_code = 401

\* C30: once a token is blacklisted, by logout or by its exchange as a refresh
\* token, every later call of get_current_user and of get_token_from_refresh
\* with it is rejected with 401 while remove_expired has not removed it; no
\* refresh token is exchanged for new tokens more than once.
C30_BlacklistedRejected ==
    /\ [][RejectedOnceBlacklisted]_vars
    /\ [](\A token \in issued : Exchanges(token) <= 1)

=============================================================================
